---- MODULE Spec2Model ----
(***************************************************************************)
(* The query-safety and execution layer of the Municipal Analytics MCP     *)
(* server: validateReadOnlyQuery, addLimitIfNeeded, getDatabase,           *)
(* getMaxRows and executeQuery of the database module, and the tool        *)
(* handlers of tools.ts that build SQL for it.                             *)
(*                                                                         *)
(* A JavaScript string is modelled as a sequence of one-character strings, *)
(* so that trim, toUpperCase, startsWith, includes, the \b regular         *)
(* expressions and the template literals are computed character by         *)
(* character, as the code computes them.                                   *)
(***************************************************************************)
EXTENDS Integers, Sequences, FiniteSets, TLC

VARIABLES
    input,    \* the arguments of the call being made (op names the operation)
    env,      \* the Env the call ran with (MAX_RESULT_ROWS binding)
    backend,  \* how the D1 backend behaved during the call
    ret,      \* how the call ended: pending, return (with its value) or throw
    ops,      \* the backend operations performed, in order
    sent,     \* the statements handed to db.prepare(...).bind(...), in order
    fetched,  \* per statement sent, the number of rows result.results held
    dictionary \* the module-level DATA_DICTIONARY object: per database its metadata

vars == <<input, env, backend, ret, ops, sent, fetched, dictionary>>

---------------------------------------------------------------------------
(* Characters and the JavaScript string built-ins the code uses.           *)

Lower ==
    <<"a", "b", "c", "d", "e", "f", "g", "h", "i", "j", "k", "l", "m",
      "n", "o", "p", "q", "r", "s", "t", "u", "v", "w", "x", "y", "z">>

Upper ==
    <<"A", "B", "C", "D", "E", "F", "G", "H", "I", "J", "K", "L", "M",
      "N", "O", "P", "Q", "R", "S", "T", "U", "V", "W", "X", "Y", "Z">>

Digits ==
    <<"0", "1", "2", "3", "4", "5", "6", "7", "8", "9">>

\* A value standing for JavaScript's undefined where a string is expected;
\* it differs from every string, whose elements are single characters.
Undefined ==
    <<"undefined">>

LowerChars ==
    {Lower[i] : i \in 1..26}

UpperChars ==
    {Upper[i] : i \in 1..26}

DigitChars ==
    {Digits[i] : i \in 1..10}

\* \w of a regular expression without the u flag: [A-Za-z0-9_].
WordChars ==
    LowerChars \cup UpperChars \cup DigitChars \cup {"_"}

IsWordChar(c) ==
    c \in WordChars

UpperOf ==
    [c \in LowerChars |-> Upper[CHOOSE i \in 1..26 : Lower[i] = c]]

toUpperChar(c) ==
    IF c \in LowerChars THEN UpperOf[c] ELSE c

toUpperCase(s) ==
    [i \in 1..Len(s) |-> toUpperChar(s[i])]

\* The first index at or after i, and the last at or before i, holding a
\* character outside chars (Len(s) + 1 and 0 when there is none).
RECURSIVE FirstOutside(_, _, _)
FirstOutside(s, chars, i) ==
    IF i > Len(s) \/ s[i] \notin chars THEN i ELSE FirstOutside(s, chars, i + 1)

RECURSIVE LastOutside(_, _, _)
LastOutside(s, chars, i) ==
    IF i < 1 \/ s[i] \notin chars THEN i ELSE LastOutside(s, chars, i - 1)

\* White space as String.prototype.trim sees it (the ASCII part).
WhiteSpace ==
    {" ", "\n", "\t", "\r"}

trim(s) ==
    SubSeq(s, FirstOutside(s, WhiteSpace, 1), LastOutside(s, WhiteSpace, Len(s)))

startsWith(s, prefix) ==
    Len(prefix) <= Len(s) /\ \A j \in 1..Len(prefix) : s[j] = prefix[j]

\* part occurs in s at index i.
OccursAt(s, part, i) ==
    \A j \in 1..Len(part) : s[i + j - 1] = part[j]

includes(s, part) ==
    \E i \in 1..(Len(s) - Len(part) + 1) : OccursAt(s, part, i)

\* \b at the position between s[p-1] and s[p]: exactly one side is a word
\* character, the ends of the string counting as non-word.
WordBoundary(s, p) ==
    LET before == p > 1 /\ IsWordChar(s[p - 1])
        after  == p <= Len(s) /\ IsWordChar(s[p])
    IN  before # after

\* new RegExp(`\\b${keyword}\\b`, 'i').test(s), keyword being upper case and
\* upper the upper-cased s: ignoring case compares upper-cased characters.
TestWholeWordIgnoreCase(s, upper, keyword) ==
    \E i \in 1..(Len(s) - Len(keyword) + 1) :
        /\ OccursAt(upper, keyword, i)
        /\ WordBoundary(s, i)
        /\ WordBoundary(s, i + Len(keyword))

---------------------------------------------------------------------------
(* String literals of the source.                                          *)

S_SELECT ==
    <<"S", "E", "L", "E", "C", "T">>
S_WITH ==
    <<"W", "I", "T", "H">>
S_PRAGMA ==
    <<"P", "R", "A", "G", "M", "A">>
S_LIMIT ==
    <<"L", "I", "M", "I", "T">>
S_INSERT ==
    <<"I", "N", "S", "E", "R", "T">>
S_UPDATE ==
    <<"U", "P", "D", "A", "T", "E">>
S_DELETE ==
    <<"D", "E", "L", "E", "T", "E">>
S_DROP ==
    <<"D", "R", "O", "P">>
S_ALTER ==
    <<"A", "L", "T", "E", "R">>
S_CREATE ==
    <<"C", "R", "E", "A", "T", "E">>
S_REPLACE ==
    <<"R", "E", "P", "L", "A", "C", "E">>
S_TRUNCATE ==
    <<"T", "R", "U", "N", "C", "A", "T", "E">>
S_ATTACH ==
    <<"A", "T", "T", "A", "C", "H">>
S_DETACH ==
    <<"D", "E", "T", "A", "C", "H">>
S_OnlySelect ==
    <<"O", "n", "l", "y", " ", "S", "E", "L", "E", "C", "T", " ", "q", "u", "e", "r", "i", "e",
    "s", " ", "a", "r", "e", " ", "a", "l", "l", "o", "w", "e", "d">>
S_ForbiddenPrefix ==
    <<"Q", "u", "e", "r", "y", " ", "c", "o", "n", "t", "a", "i", "n", "s", " ", "f", "o", "r",
    "b", "i", "d", "d", "e", "n", " ", "k", "e", "y", "w", "o", "r", "d", ":", " ">>
S_UnknownDatabasePrefix ==
    <<"U", "n", "k", "n", "o", "w", "n", " ", "d", "a", "t", "a", "b", "a", "s", "e", ":", " ">>
S_UnknownDatabaseError ==
    <<"U", "n", "k", "n", "o", "w", "n", " ", "d", "a", "t", "a", "b", "a", "s", "e", " ", "e",
    "r", "r", "o", "r">>
S_LimitInfix ==
    <<" ", "L", "I", "M", "I", "T", " ">>
S_holly ==
    <<"h", "o", "l", "l", "y">>
S_rockford ==
    <<"r", "o", "c", "k", "f", "o", "r", "d">>
S_historical ==
    <<"h", "i", "s", "t", "o", "r", "i", "c", "a", "l">>
S_HollyDisplay ==
    <<"H", "o", "l", "l", "y", " ", "D", "a", "t", "a", " ", "B", "r", "o", "n", "z", "e">>
S_RockfordDisplay ==
    <<"R", "o", "c", "k", "f", "o", "r", "d">>
S_HistoricalDisplay ==
    <<"H", "i", "s", "t", "o", "r", "i", "c", "a", "l", " ", "B", "u", "d", "g", "e", "t", "s">>
S_DefaultMaxRows ==
    <<"1", "0", "0", "0">>


S_D1Error ==
    <<"D", "1", "_", "E", "R", "R", "O", "R", ":", " ", "n", "o", " ", "s", "u", "c", "h", " ",
    "t", "a", "b", "l", "e", ":", " ", "t", ":", " ", "S", "Q", "L", "I", "T", "E", "_", "E",
    "R", "R", "O", "R">>
S_D1BindError ==
    <<"D", "1", "_", "E", "R", "R", "O", "R", ":", " ", "W", "r", "o", "n", "g", " ", "n", "u",
    "m", "b", "e", "r", " ", "o", "f", " ", "p", "a", "r", "a", "m", "e", "t", "e", "r", " ",
    "b", "i", "n", "d", "i", "n", "g", "s", " ", "f", "o", "r", " ", "S", "Q", "L", " ", "q",
    "u", "e", "r", "y", ".">>
S_D1SyntaxError ==
    <<"D", "1", "_", "E", "R", "R", "O", "R", ":", " ", "n", "e", "a", "r", " ", "\"", "L",
    "I", "M", "I", "T", "\"", ":", " ", "s", "y", "n", "t", "a", "x", " ", "e", "r", "r", "o",
    "r", ":", " ", "S", "Q", "L", "I", "T", "E", "_", "E", "R", "R", "O", "R">>
S_other ==
    <<"o", "t", "h", "e", "r">>

---------------------------------------------------------------------------
(* Exceptions and completions.                                             *)

\* new Error(message)
Error(message) ==
    [isError |-> TRUE, message |-> message]

\* A thrown value that is not an Error instance.
NonError ==
    [isError |-> FALSE]

\* The completion of a call: normal, or abrupt with the value thrown.
Normal(value) ==
    [threw |-> FALSE, value |-> value]

Throw(value) ==
    [threw |-> TRUE, error |-> value]

---------------------------------------------------------------------------
(* validateReadOnlyQuery                                                   *)

allowedPrefixes ==
    <<S_SELECT, S_WITH, S_PRAGMA>>

forbiddenKeywords ==
    <<S_INSERT, S_UPDATE, S_DELETE, S_DROP, S_ALTER,
      S_CREATE, S_REPLACE, S_TRUNCATE, S_ATTACH, S_DETACH>>

\* The index of the first keyword of the list that the query matches, 0 if none.
RECURSIVE FirstForbiddenFrom(_, _, _)
FirstForbiddenFrom(query, upper, k) ==
    IF k > Len(forbiddenKeywords) THEN 0
    ELSE IF TestWholeWordIgnoreCase(query, upper, forbiddenKeywords[k]) THEN k
    ELSE FirstForbiddenFrom(query, upper, k + 1)

FirstForbidden(query) ==
    FirstForbiddenFrom(query, toUpperCase(query), 1)

\* validateReadOnlyQuery with the regular expression built without the 'i' flag.
validateReadOnlyQuery_CaseSensitive(query) ==
    LET trimmedQuery == toUpperCase(trim(query))
        startsWithAllowed ==
            \E k \in 1..Len(allowedPrefixes) :
                startsWith(trimmedQuery, allowedPrefixes[k])
        hits == {k \in 1..Len(forbiddenKeywords) :
                    \E i \in 1..(Len(query) - Len(forbiddenKeywords[k]) + 1) :
                        /\ OccursAt(query, forbiddenKeywords[k], i)
                        /\ WordBoundary(query, i)
                        /\ WordBoundary(query, i + Len(forbiddenKeywords[k]))}
    IN  IF ~startsWithAllowed
        THEN Throw(Error(S_OnlySelect))
        ELSE IF hits # {}
        THEN Throw(Error(S_ForbiddenPrefix
                         \o forbiddenKeywords[CHOOSE k \in hits : \A h \in hits : k <= h]))
        ELSE Normal(Undefined)

\* validateReadOnlyQuery looking for an allowed prefix anywhere in the text
\* (includes in place of startsWith).
validateReadOnlyQuery_PrefixAnywhere(query) ==
    LET trimmedQuery == toUpperCase(trim(query))
        startsWithAllowed ==
            \E k \in 1..Len(allowedPrefixes) :
                includes(trimmedQuery, allowedPrefixes[k])
    IN  IF ~startsWithAllowed
        THEN Throw(Error(S_OnlySelect))
        ELSE LET forbidden == FirstForbidden(query)
             IN  IF forbidden # 0
                 THEN Throw(Error(S_ForbiddenPrefix \o forbiddenKeywords[forbidden]))
                 ELSE Normal(Undefined)

\* validateReadOnlyQuery looking for a forbidden keyword anywhere in the text,
\* inside a longer word too (includes in place of the \b regular expression).
validateReadOnlyQuery_Substring(query) ==
    LET trimmedQuery == toUpperCase(trim(query))
        startsWithAllowed ==
            \E k \in 1..Len(allowedPrefixes) :
                startsWith(trimmedQuery, allowedPrefixes[k])
        hits == {k \in 1..Len(forbiddenKeywords) :
                    includes(toUpperCase(query), forbiddenKeywords[k])}
    IN  IF ~startsWithAllowed
        THEN Throw(Error(S_OnlySelect))
        ELSE IF hits # {}
        THEN Throw(Error(S_ForbiddenPrefix
                         \o forbiddenKeywords[CHOOSE k \in hits : \A h \in hits : k <= h]))
        ELSE Normal(Undefined)

\* validateReadOnlyQuery scanning for the forbidden keywords before it
\* checks the prefix.
validateReadOnlyQuery_KeywordsFirst(query) ==
    LET trimmedQuery == toUpperCase(trim(query))
        startsWithAllowed ==
            \E k \in 1..Len(allowedPrefixes) :
                startsWith(trimmedQuery, allowedPrefixes[k])
        forbidden == FirstForbidden(query)
    IN  IF forbidden # 0
        THEN Throw(Error(S_ForbiddenPrefix \o forbiddenKeywords[forbidden]))
        ELSE IF ~startsWithAllowed
        THEN Throw(Error(S_OnlySelect))
        ELSE Normal(Undefined)

\* validateReadOnlyQuery passing over a keyword that stands between double
\* quotes, as a quoted identifier.
validateReadOnlyQuery_SkipsQuoted(query) ==
    LET trimmedQuery == toUpperCase(trim(query))
        upper == toUpperCase(query)
        startsWithAllowed ==
            \E k \in 1..Len(allowedPrefixes) :
                startsWith(trimmedQuery, allowedPrefixes[k])
        hits == {k \in 1..Len(forbiddenKeywords) :
                    \E i \in 1..(Len(query) - Len(forbiddenKeywords[k]) + 1) :
                        /\ OccursAt(upper, forbiddenKeywords[k], i)
                        /\ WordBoundary(query, i)
                        /\ WordBoundary(query, i + Len(forbiddenKeywords[k]))
                        /\ ~(i > 1 /\ query[i - 1] = "\"")}
    IN  IF ~startsWithAllowed
        THEN Throw(Error(S_OnlySelect))
        ELSE IF hits # {}
        THEN Throw(Error(S_ForbiddenPrefix
                         \o forbiddenKeywords[CHOOSE k \in hits : \A h \in hits : k <= h]))
        ELSE Normal(Undefined)

\* validateReadOnlyQuery asking for a whole word at the start: the allowed
\* prefix must end at a word boundary.
validateReadOnlyQuery_WholeToken(query) ==
    LET trimmedQuery == toUpperCase(trim(query))
        startsWithAllowed ==
            \E k \in 1..Len(allowedPrefixes) :
                /\ startsWith(trimmedQuery, allowedPrefixes[k])
                /\ WordBoundary(trimmedQuery, Len(allowedPrefixes[k]) + 1)
    IN  IF ~startsWithAllowed
        THEN Throw(Error(S_OnlySelect))
        ELSE LET forbidden == FirstForbidden(query)
             IN  IF forbidden # 0
                 THEN Throw(Error(S_ForbiddenPrefix \o forbiddenKeywords[forbidden]))
                 ELSE Normal(Undefined)

validateReadOnlyQuery(query) ==
    LET trimmedQuery == toUpperCase(trim(query))
        startsWithAllowed ==
            \E k \in 1..Len(allowedPrefixes) :
                startsWith(trimmedQuery, allowedPrefixes[k])
    IN  IF ~startsWithAllowed
        THEN Throw(Error(S_OnlySelect))
        ELSE LET forbidden == FirstForbidden(query)
             IN  IF forbidden # 0
                 THEN Throw(Error(S_ForbiddenPrefix \o forbiddenKeywords[forbidden]))
                 ELSE Normal(Undefined)

---------------------------------------------------------------------------
(* Numbers in strings.                                                     *)

DigitOf ==
    [c \in DigitChars |-> (CHOOSE i \in 1..10 : Digits[i] = c) - 1]

RECURSIVE DigitsValue(_)
DigitsValue(s) ==
    IF s = <<>> THEN 0
    ELSE 10 * DigitsValue(SubSeq(s, 1, Len(s) - 1)) + DigitOf[s[Len(s)]]

\* The template literal `${n}` of a non-negative integer.
RECURSIVE NumberToString(_)
NumberToString(n) ==
    IF n < 10 THEN <<Digits[n + 1]>>
    ELSE NumberToString(n \div 10) \o <<Digits[(n % 10) + 1]>>

\* parseInt(s, 10) of a string that starts with a decimal digit: the value of
\* its leading run of digits.
parseInt(s) ==
    LET stops == {i \in 1..Len(s) : s[i] \notin DigitChars}
        run == IF stops = {} THEN Len(s)
               ELSE (CHOOSE i \in stops : \A j \in stops : i <= j) - 1
    IN  DigitsValue(SubSeq(s, 1, run))

\* Array.prototype.slice(0, end) for 0 <= end.
slice(array, end) ==
    SubSeq(array, 1, IF end < Len(array) THEN end ELSE Len(array))

---------------------------------------------------------------------------
(* The D1 backend, as the code uses it: db.prepare(sql).bind(...params)    *)
(* .all() either resolves to the rows of the statement or rejects.  The    *)
(* backend holds the rows b.rows for the statement without its LIMIT       *)
(* clause and applies the statement's trailing LIMIT <n>, if it has one;   *)
(* a PRAGMA takes no LIMIT clause, and the number of parameters bound must *)
(* be the number of ? placeholders.                                        *)

\* The limit of the statement's trailing LIMIT clause: {n}, or {} without one.
StatementLimit(sql) ==
    LET end == LastOutside(sql, WhiteSpace \cup {";"}, Len(sql))
        d   == LastOutside(sql, DigitChars, end)
        w   == LastOutside(sql, WhiteSpace, d)
    IN  IF /\ d < end
           /\ w < d
           /\ w >= Len(S_LIMIT)
           /\ \A j \in 1..Len(S_LIMIT) : toUpperChar(sql[w - Len(S_LIMIT) + j]) = S_LIMIT[j]
           /\ WordBoundary(sql, w - Len(S_LIMIT) + 1)
        THEN {DigitsValue(SubSeq(sql, d + 1, end))}
        ELSE {}

CountPlaceholders(sql) ==
    Cardinality({i \in 1..Len(sql) : sql[i] = "?"})

Rows(n) ==
    [i \in 1..n |-> i]

\* What .all() resolves to: the rows of the statement, b.rows being its rows
\* without the LIMIT clause.
RowsReturned(sql, rows) ==
    IF \E n \in StatementLimit(sql) : n < Len(rows)
    THEN SubSeq(rows, 1, CHOOSE n \in StatementLimit(sql) : TRUE)
    ELSE rows

D1PrepareBindAll(b, sql, params) ==
    IF b.outcome = "rejectNonError" THEN Throw(NonError)
    ELSE IF b.outcome = "rejectError" THEN Throw(Error(S_D1Error))
    ELSE IF CountPlaceholders(sql) # Len(params) THEN Throw(Error(S_D1BindError))
    ELSE IF startsWith(toUpperCase(trim(sql)), S_PRAGMA) /\ StatementLimit(sql) # {}
    THEN Throw(Error(S_D1SyntaxError))
    ELSE Normal([results |-> RowsReturned(sql, b.rows)])

---------------------------------------------------------------------------
(* The database module.                                                    *)

DATABASE_DISPLAY_NAMES(dbName) ==
    CASE dbName = S_holly      -> S_HollyDisplay
      [] dbName = S_rockford   -> S_RockfordDisplay
      [] dbName = S_historical -> S_HistoricalDisplay
      [] OTHER                 -> Undefined

getDatabase(e, dbName) ==
    CASE dbName = S_holly      -> Normal(e.HOLLY_DB)
      [] dbName = S_rockford   -> Normal(e.ROCKFORD_DB)
      [] dbName = S_historical -> Normal(e.HISTORICAL_DB)
      [] OTHER                 -> Throw(Error(S_UnknownDatabasePrefix \o dbName))

\* getMaxRows counting the cap down with every statement the backend has
\* already answered: a row budget kept between calls.
getMaxRows_SharedBudget(e) ==
    LET configured == parseInt(IF e.MAX_RESULT_ROWS = Undefined \/ e.MAX_RESULT_ROWS = <<>>
                               THEN S_DefaultMaxRows
                               ELSE e.MAX_RESULT_ROWS)
    IN  IF Len(fetched) > configured THEN 0 ELSE configured - Len(fetched)

getMaxRows(e) ==
    parseInt(IF e.MAX_RESULT_ROWS = Undefined \/ e.MAX_RESULT_ROWS = <<>>
             THEN S_DefaultMaxRows
             ELSE e.MAX_RESULT_ROWS)

\* addLimitIfNeeded appending the cap itself, not cap + 1.
addLimitIfNeeded_OffByOne(query, limit) ==
    LET upperQuery == toUpperCase(query)
        trimmed == trim(query)
        trimmedQuery == IF trimmed # <<>> /\ trimmed[Len(trimmed)] = ";"
                        THEN SubSeq(trimmed, 1, Len(trimmed) - 1)
                        ELSE trimmed
    IN  IF startsWith(trim(upperQuery), S_PRAGMA) THEN query
        ELSE IF includes(upperQuery, S_LIMIT) THEN query
        ELSE trimmedQuery \o S_LimitInfix \o NumberToString(limit - 1)

\* addLimitIfNeeded returning the trimmed query where it adds nothing.
addLimitIfNeeded_TrimsAlways(query, limit) ==
    LET upperQuery == toUpperCase(query)
        trimmed == trim(query)
        trimmedQuery == IF trimmed # <<>> /\ trimmed[Len(trimmed)] = ";"
                        THEN SubSeq(trimmed, 1, Len(trimmed) - 1)
                        ELSE trimmed
    IN  IF startsWith(trim(upperQuery), S_PRAGMA) THEN trimmedQuery
        ELSE IF includes(upperQuery, S_LIMIT) THEN trimmedQuery
        ELSE trimmedQuery \o S_LimitInfix \o NumberToString(limit)

addLimitIfNeeded(query, limit) ==
    LET upperQuery == toUpperCase(query)
        trimmed == trim(query)
        \* query.trim().replace(/;$/, '')
        trimmedQuery == IF trimmed # <<>> /\ trimmed[Len(trimmed)] = ";"
                        THEN SubSeq(trimmed, 1, Len(trimmed) - 1)
                        ELSE trimmed
    IN  IF startsWith(trim(upperQuery), S_PRAGMA) THEN query
        ELSE IF includes(upperQuery, S_LIMIT) THEN query
        ELSE trimmedQuery \o S_LimitInfix \o NumberToString(limit)

\* The success value with the rows never cut to the cap.
SuccessResult_NoSlice(results, maxRows, dbName) ==
    LET truncated == Len(results) > maxRows
        data == results
    IN  [success |-> TRUE, data |-> data, rowCount |-> Len(data),
         truncated |-> truncated, database |-> DATABASE_DISPLAY_NAMES(dbName)]

\* The success value with truncation tested by >= in place of >.
SuccessResult_AtLeast(results, maxRows, dbName) ==
    LET truncated == Len(results) >= maxRows
        data == IF truncated THEN slice(results, maxRows) ELSE results
    IN  [success |-> TRUE, data |-> data, rowCount |-> Len(data),
         truncated |-> truncated, database |-> DATABASE_DISPLAY_NAMES(dbName)]

\* The truncation check and the value returned on success.
SuccessResult(results, maxRows, dbName) ==
    LET truncated == Len(results) > maxRows
        data == IF truncated THEN slice(results, maxRows) ELSE results
    IN  [success |-> TRUE, data |-> data, rowCount |-> Len(data),
         truncated |-> truncated, database |-> DATABASE_DISPLAY_NAMES(dbName)]

\* The catch block letting a thrown value that is no Error instance escape.
CatchBlock_ErrorsOnly(error, dbName) ==
    IF error.isError
    THEN Normal([success |-> FALSE, error |-> error.message,
                 database |-> DATABASE_DISPLAY_NAMES(dbName)])
    ELSE Throw(error)

\* The catch block: whatever was thrown becomes a failure value.
CatchBlock(error, dbName) ==
    LET errorMessage == IF error.isError THEN error.message ELSE S_UnknownDatabaseError
    IN  Normal([success |-> FALSE, error |-> errorMessage,
                database |-> DATABASE_DISPLAY_NAMES(dbName)])

BackendOps ==
    <<"prepare", "bind", "all">>

\* executeQuery resolving the database before it validates the query.
executeQuery_ResolveFirst(e, dbName, query, params) ==
    LET validated == validateReadOnlyQuery(query)
        db == getDatabase(e, dbName)
        maxRows == getMaxRows(e)
        limitedQuery == addLimitIfNeeded(query, maxRows + 1)
    IN  IF db.threw
        THEN [awaits |-> FALSE, completion |-> CatchBlock(db.error, dbName),
              ops |-> <<"getDatabase">>]
        ELSE IF validated.threw
        THEN [awaits |-> FALSE, completion |-> CatchBlock(validated.error, dbName),
              ops |-> <<"getDatabase">>]
        ELSE [awaits |-> TRUE, statement |-> [sql |-> limitedQuery, params |-> params],
              ops |-> <<"getDatabase">> \o BackendOps]

\* executeQuery(env, dbName, query, params) up to its await: either the
\* validator or the database resolution threw and the catch block completes
\* the call, or one statement is handed to the backend and the call awaits
\* the outcome.  ops are the backend operations performed.
executeQuery(e, dbName, query, params) ==
    LET validated == validateReadOnlyQuery(query)
        db == getDatabase(e, dbName)
        maxRows == getMaxRows(e)
        limitedQuery == addLimitIfNeeded(query, maxRows + 1)
    IN  IF validated.threw
        THEN [awaits |-> FALSE, completion |-> CatchBlock(validated.error, dbName),
              ops |-> <<>>]
        ELSE IF db.threw
        THEN [awaits |-> FALSE, completion |-> CatchBlock(db.error, dbName),
              ops |-> <<"getDatabase">>]
        ELSE [awaits |-> TRUE, statement |-> [sql |-> limitedQuery, params |-> params],
              ops |-> <<"getDatabase">> \o BackendOps]

\* executeQuery from its await on: settled is how db.prepare(...).bind(...)
\* .all() ended.
executeQuerySettled(e, dbName, settled) ==
    IF settled.threw
    THEN CatchBlock(settled.error, dbName)
    ELSE Normal(SuccessResult(settled.value.results, getMaxRows(e), dbName))

---------------------------------------------------------------------------
(* String literals and SQL templates of the table helpers and of the tool  *)
(* handlers: T_<template>[k] is the k-th literal piece of the template,    *)
(* between its ${...} holes.                                               *)

S_InvalidTableName ==
    <<"I", "n", "v", "a", "l", "i", "d", " ", "t", "a", "b", "l", "e", " ", "n", "a", "m", "e">>
S_InvalidColumnName ==
    <<"I", "n", "v", "a", "l", "i", "d", " ", "c", "o", "l", "u", "m", "n", " ", "n", "a", "m",
    "e">>
S_InvalidGroupBy ==
    <<"I", "n", "v", "a", "l", "i", "d", " ", "g", "r", "o", "u", "p", " ", "b", "y", " ", "c",
    "o", "l", "u", "m", "n", " ", "n", "a", "m", "e">>
S_InvalidDate ==
    <<"I", "n", "v", "a", "l", "i", "d", " ", "d", "a", "t", "e", " ", "f", "o", "r", "m", "a",
    "t", ".", " ", "U", "s", "e", " ", "Y", "Y", "Y", "Y", "-", "M", "M", "-", "D", "D">>
S_NoTextColumns ==
    <<"N", "o", " ", "t", "e", "x", "t", " ", "c", "o", "l", "u", "m", "n", "s", " ", "f", "o",
    "u", "n", "d", " ", "i", "n", " ", "t", "a", "b", "l", "e", " ", "t", "o", " ", "s", "e",
    "a", "r", "c", "h">>
S_WherePrefix ==
    <<"W", "H", "E", "R", "E", " ">>
S_AndSeparator ==
    <<" ", "A", "N", "D", " ">>
S_OrSeparator ==
    <<" ", "O", "R", " ">>
S_IsNullSuffix ==
    <<"\"", " ", "I", "S", " ", "N", "U", "L", "L">>
S_LikeSuffix ==
    <<"\"", " ", "L", "I", "K", "E", " ", "?">>
S_EqualsSuffix ==
    <<"\"", " ", "=", " ", "?">>
S_TEXT ==
    <<"T", "E", "X", "T">>
S_VARCHAR ==
    <<"V", "A", "R", "C", "H", "A", "R">>
S_CHAR ==
    <<"C", "H", "A", "R">>
T_Recent ==
    << <<"S", "E", "L", "E", "C", "T", " ", "*", " ", "F", "R", "O", "M", " ", "\"">>,
       <<"\"", " ", "L", "I", "M", "I", "T", " ">> >>

T_Filter ==
    << <<"S", "E", "L", "E", "C", "T", " ", "*", " ", "F", "R", "O", "M", " ", "\"">>,
       <<"\"", " ">>,
       <<" ", "L", "I", "M", "I", "T", " ">> >>

T_SearchCondition ==
    << <<"\"">>,
       <<"\"", " ", "L", "I", "K", "E", " ", "?", " ", "C", "O", "L", "L", "A", "T", "E", " ",
         "N", "O", "C", "A", "S", "E">> >>

T_SearchParam ==
    << <<"%">>,
       <<"%">> >>

T_Search ==
    << <<"S", "E", "L", "E", "C", "T", " ", "*", " ", "F", "R", "O", "M", " ", "\"">>,
       <<"\"", " ", "W", "H", "E", "R", "E", " ">>,
       <<" ", "L", "I", "M", "I", "T", " ">> >>

T_SummaryGrouped ==
    << <<"\n", " ", " ", " ", " ", " ", " ", " ", " ", "S", "E", "L", "E", "C", "T", "\n", " ",
         " ", " ", " ", " ", " ", " ", " ", " ", " ", "\"">>,
       <<"\"", " ", "a", "s", " ", "g", "r", "o", "u", "p", "_", "v", "a", "l", "u", "e", ",",
         "\n", " ", " ", " ", " ", " ", " ", " ", " ", " ", " ", "C", "O", "U", "N", "T", "(", "*",
         ")", " ", "a", "s", " ", "c", "o", "u", "n", "t", ",", "\n", " ", " ", " ", " ", " ", " ",
         " ", " ", " ", " ", "S", "U", "M", "(", "\"">>,
       <<"\"", ")", " ", "a", "s", " ", "s", "u", "m", ",", "\n", " ", " ", " ", " ", " ", " ",
         " ", " ", " ", " ", "A", "V", "G", "(", "\"">>,
       <<"\"", ")", " ", "a", "s", " ", "a", "v", "e", "r", "a", "g", "e", ",", "\n", " ", " ",
         " ", " ", " ", " ", " ", " ", " ", " ", "M", "I", "N", "(", "\"">>,
       <<"\"", ")", " ", "a", "s", " ", "m", "i", "n", ",", "\n", " ", " ", " ", " ", " ", " ",
         " ", " ", " ", " ", "M", "A", "X", "(", "\"">>,
       <<"\"", ")", " ", "a", "s", " ", "m", "a", "x", "\n", " ", " ", " ", " ", " ", " ", " ",
         " ", "F", "R", "O", "M", " ", "\"">>,
       <<"\"", "\n", " ", " ", " ", " ", " ", " ", " ", " ", "G", "R", "O", "U", "P", " ", "B",
         "Y", " ", "\"">>,
       <<"\"", "\n", " ", " ", " ", " ", " ", " ", " ", " ", "O", "R", "D", "E", "R", " ", "B",
         "Y", " ", "c", "o", "u", "n", "t", " ", "D", "E", "S", "C", "\n", " ", " ", " ", " ", " ",
         " ", " ", " ", "L", "I", "M", "I", "T", " ", "5", "0", "\n", " ", " ", " ", " ", " ", " ">> >>

T_SummaryColumn ==
    << <<"\n", " ", " ", " ", " ", " ", " ", " ", " ", "S", "E", "L", "E", "C", "T", "\n", " ",
         " ", " ", " ", " ", " ", " ", " ", " ", " ", "C", "O", "U", "N", "T", "(", "*", ")", " ",
         "a", "s", " ", "c", "o", "u", "n", "t", ",", "\n", " ", " ", " ", " ", " ", " ", " ", " ",
         " ", " ", "S", "U", "M", "(", "\"">>,
       <<"\"", ")", " ", "a", "s", " ", "s", "u", "m", ",", "\n", " ", " ", " ", " ", " ", " ",
         " ", " ", " ", " ", "A", "V", "G", "(", "\"">>,
       <<"\"", ")", " ", "a", "s", " ", "a", "v", "e", "r", "a", "g", "e", ",", "\n", " ", " ",
         " ", " ", " ", " ", " ", " ", " ", " ", "M", "I", "N", "(", "\"">>,
       <<"\"", ")", " ", "a", "s", " ", "m", "i", "n", ",", "\n", " ", " ", " ", " ", " ", " ",
         " ", " ", " ", " ", "M", "A", "X", "(", "\"">>,
       <<"\"", ")", " ", "a", "s", " ", "m", "a", "x", "\n", " ", " ", " ", " ", " ", " ", " ",
         " ", "F", "R", "O", "M", " ", "\"">>,
       <<"\"", "\n", " ", " ", " ", " ", " ", " ">> >>

T_SummaryCount ==
    << <<"S", "E", "L", "E", "C", "T", " ", "C", "O", "U", "N", "T", "(", "*", ")", " ", "a", "s",
         " ", "t", "o", "t", "a", "l", "_", "r", "o", "w", "s", " ", "F", "R", "O", "M", " ", "\"">>,
       <<"\"">> >>

T_DateRange ==
    << <<"\n", " ", " ", " ", " ", "S", "E", "L", "E", "C", "T", " ", "*", " ", "F", "R", "O",
         "M", " ", "\"">>,
       <<"\"", "\n", " ", " ", " ", " ", "W", "H", "E", "R", "E", " ", "\"">>,
       <<"\"", " ", ">", "=", " ", "?", " ", "A", "N", "D", " ", "\"">>,
       <<"\"", " ", "<", "=", " ", "?", "\n", " ", " ", " ", " ", "O", "R", "D", "E", "R", " ",
         "B", "Y", " ", "\"">>,
       <<"\"", " ", "D", "E", "S", "C", "\n", " ", " ", " ", " ", "L", "I", "M", "I", "T", " ">>,
       <<"\n", " ", " ">> >>

T_TableInfo ==
    << <<"P", "R", "A", "G", "M", "A", " ", "t", "a", "b", "l", "e", "_", "i", "n", "f", "o", "(",
         "\"">>,
       <<"\"", ")">> >>

T_RowCount ==
    << <<"S", "E", "L", "E", "C", "T", " ", "C", "O", "U", "N", "T", "(", "*", ")", " ", "a", "s",
         " ", "c", "o", "u", "n", "t", " ", "F", "R", "O", "M", " ", "\"">>,
       <<"\"">> >>

---------------------------------------------------------------------------
(* Identifier and date checks, and the pieces shared by the handlers.      *)

\* /^[a-zA-Z_][a-zA-Z0-9_]*$/.test(name)
IsIdentifier(name) ==
    /\ Len(name) >= 1
    /\ name[1] \in LowerChars \cup UpperChars \cup {"_"}
    /\ \A i \in 1..Len(name) : IsWordChar(name[i])

\* /^\d{4}-\d{2}-\d{2}$/.test(date)
IsDateFormat(date) ==
    /\ Len(date) = 10
    /\ \A i \in {1, 2, 3, 4, 6, 7, 9, 10} : date[i] \in DigitChars
    /\ date[5] = "-"
    /\ date[8] = "-"

\* if (value): undefined and the empty string are falsy.
Truthy(value) ==
    value \notin {Undefined, <<>>}

\* Math.max(1, limit), the maximum forgotten.
ClampLimit_NoMaximum(limit, most) ==
    IF limit < 1 THEN 1 ELSE limit

\* Math.min(Math.max(1, limit), most)
ClampLimit(limit, most) ==
    LET atLeastOne == IF limit < 1 THEN 1 ELSE limit
    IN  IF atLeastOne > most THEN most ELSE atLeastOne

\* Array.prototype.join
RECURSIVE join(_, _)
join(strings, separator) ==
    IF strings = <<>> THEN <<>>
    ELSE IF Len(strings) = 1 THEN strings[1]
    ELSE strings[1] \o separator \o join(Tail(strings), separator)

\* A step of an async function that ends it by throwing.
Throws(message) ==
    [awaits |-> FALSE, completion |-> Throw(Error(message)), ops |-> <<>>]

\* A step of an async function that ends it by returning.
Returns(value) ==
    [awaits |-> FALSE, completion |-> Normal(value), ops |-> <<>>]

---------------------------------------------------------------------------
(* getTableColumns, getTableRowCount and buildWhereClause.                 *)

getTableColumns(e, dbName, tableName) ==
    IF ~IsIdentifier(tableName) THEN Throws(S_InvalidTableName)
    ELSE executeQuery(e, dbName, T_TableInfo[1] \o tableName \o T_TableInfo[2], <<>>)

\* getTableColumns from the await on: the rows, or [] when the query failed.
getTableColumnsSettled(e, dbName, settled) ==
    LET result == executeQuerySettled(e, dbName, settled).value
    IN  IF ~result.success THEN <<>> ELSE result.data

\* getTableColumns completing before its await: the query failed (or threw).
getTableColumnsEnded(completion) ==
    IF completion.threw THEN completion ELSE Normal(<<>>)

getTableRowCount(e, dbName, tableName) ==
    IF ~IsIdentifier(tableName) THEN Throws(S_InvalidTableName)
    ELSE executeQuery(e, dbName, T_RowCount[1] \o tableName \o T_RowCount[2], <<>>)

\* getTableRowCount from the await on: the count, or 0 when the query failed
\* or returned no row.
getTableRowCountSettled(e, dbName, settled) ==
    LET result == executeQuerySettled(e, dbName, settled).value
    IN  IF ~result.success \/ Len(result.data) = 0 THEN 0 ELSE result.data[1].count

getTableRowCountEnded(completion) ==
    IF completion.threw THEN completion ELSE Normal(0)

\* A filter value: null, a string or a number.
Null ==
    [kind |-> "null"]

String(text) ==
    [kind |-> "string", text |-> text]

Number(n) ==
    [kind |-> "number", n |-> n]

\* buildConditions binding a parameter for a null value too.
RECURSIVE buildConditions_NullBound(_, _)
buildConditions_NullBound(entries, i) ==
    IF i > Len(entries) THEN [conditions |-> <<>>, params |-> <<>>]
    ELSE LET column == entries[i].column
             value  == entries[i].value
             rest   == buildConditions_NullBound(entries, i + 1)
         IN  IF ~IsIdentifier(column) THEN rest
             ELSE IF value.kind = "null"
             THEN [conditions |-> <<<<"\"">> \o column \o S_IsNullSuffix>> \o rest.conditions,
                   params |-> <<value>> \o rest.params]
             ELSE IF value.kind = "string" /\ includes(value.text, <<"%">>)
             THEN [conditions |-> <<<<"\"">> \o column \o S_LikeSuffix>> \o rest.conditions,
                   params |-> <<value>> \o rest.params]
             ELSE [conditions |-> <<<<"\"">> \o column \o S_EqualsSuffix>> \o rest.conditions,
                   params |-> <<value>> \o rest.params]

\* buildWhereClause over Object.entries(filters), a sequence of
\* [column, value] entries, from entry i on.
RECURSIVE buildConditions(_, _)
buildConditions(entries, i) ==
    IF i > Len(entries) THEN [conditions |-> <<>>, params |-> <<>>]
    ELSE LET column == entries[i].column
             value  == entries[i].value
             rest   == buildConditions(entries, i + 1)
         IN  IF ~IsIdentifier(column) THEN rest
             ELSE IF value.kind = "null"
             THEN [conditions |-> <<<<"\"">> \o column \o S_IsNullSuffix>> \o rest.conditions,
                   params |-> rest.params]
             ELSE IF value.kind = "string" /\ includes(value.text, <<"%">>)
             THEN [conditions |-> <<<<"\"">> \o column \o S_LikeSuffix>> \o rest.conditions,
                   params |-> <<value>> \o rest.params]
             ELSE [conditions |-> <<<<"\"">> \o column \o S_EqualsSuffix>> \o rest.conditions,
                   params |-> <<value>> \o rest.params]

\* buildWhereClause writing WHERE also when no condition is left.
buildWhereClause_AlwaysWhere(filters) ==
    LET built == buildConditions(filters, 1)
    IN  [clause |-> S_WherePrefix \o join(built.conditions, S_AndSeparator),
         params |-> built.params]

buildWhereClause(filters) ==
    LET built == buildConditions(filters, 1)
    IN  [clause |-> IF Len(built.conditions) > 0
                    THEN S_WherePrefix \o join(built.conditions, S_AndSeparator)
                    ELSE <<>>,
         params |-> built.params]

---------------------------------------------------------------------------
(* The tool handlers of tools.ts, each up to its first await.              *)

\* handleGetRecentRecords without the check of the table name.
handleGetRecentRecords_Unchecked(dbName, tableName, limit, e) ==
    LET safeLimit == ClampLimit(limit, 100)
        query == T_Recent[1] \o tableName \o T_Recent[2] \o NumberToString(safeLimit)
    IN  executeQuery(e, dbName, query, <<>>)

handleGetRecentRecords(dbName, tableName, limit, e) ==
    LET safeLimit == ClampLimit(limit, 100)
        query == T_Recent[1] \o tableName \o T_Recent[2] \o NumberToString(safeLimit)
    IN  IF ~IsIdentifier(tableName) THEN Throws(S_InvalidTableName)
        ELSE executeQuery(e, dbName, query, <<>>)

\* handleFilterByColumn without the check of the table name.
handleFilterByColumn_Unchecked(dbName, tableName, filters, limit, e) ==
    LET safeLimit == ClampLimit(limit, 500)
        where == buildWhereClause(filters)
        query == T_Filter[1] \o tableName \o T_Filter[2] \o where.clause
                     \o T_Filter[3] \o NumberToString(safeLimit)
    IN  executeQuery(e, dbName, query, where.params)

handleFilterByColumn(dbName, tableName, filters, limit, e) ==
    LET safeLimit == ClampLimit(limit, 500)
        where == buildWhereClause(filters)
        query == T_Filter[1] \o tableName \o T_Filter[2] \o where.clause
                     \o T_Filter[3] \o NumberToString(safeLimit)
    IN  IF ~IsIdentifier(tableName) THEN Throws(S_InvalidTableName)
        ELSE executeQuery(e, dbName, query, where.params)

\* handleSearchRecords up to its first await, inside getTableColumns.
handleSearchRecords(dbName, tableName, searchTerm, limit, e) ==
    IF ~IsIdentifier(tableName) THEN Throws(S_InvalidTableName)
    ELSE getTableColumns(e, dbName, tableName)

IsTextType(type) ==
    \/ includes(toUpperCase(type), S_TEXT)
    \/ includes(toUpperCase(type), S_VARCHAR)
    \/ includes(toUpperCase(type), S_CHAR)

\* handleSearchRecords from the columns on, up to its second await.
handleSearchRecordsColumns(dbName, tableName, searchTerm, limit, e, columns) ==
    LET textColumns == SelectSeq(columns, LAMBDA col : IsTextType(col.type))
        conditions == [i \in 1..Len(textColumns) |->
                          T_SearchCondition[1] \o textColumns[i].name
                              \o T_SearchCondition[2]]
        params == [i \in 1..Len(textColumns) |->
                      T_SearchParam[1] \o searchTerm \o T_SearchParam[2]]
        safeLimit == ClampLimit(limit, 200)
        query == T_Search[1] \o tableName \o T_Search[2]
                     \o join(conditions, S_OrSeparator)
                     \o T_Search[3] \o NumberToString(safeLimit)
    IN  IF Len(textColumns) = 0
        THEN Returns([success |-> FALSE, error |-> S_NoTextColumns])
        ELSE executeQuery(e, dbName, query, params)

\* handleGetSummaryStats with a grouped query that has no LIMIT 50.
W_OrderByCount ==
    <<"\"", "\n", " ", " ", " ", " ", " ", " ", " ", " ", "O", "R", "D", "E", "R", " ", "B",
    "Y", " ", "c", "o", "u", "n", "t", " ", "D", "E", "S", "C", "\n", " ", " ", " ", " ", " ",
    " ">>

handleGetSummaryStats_Unlimited(dbName, tableName, column, groupBy, e) ==
    LET grouped ==
            T_SummaryGrouped[1] \o groupBy \o T_SummaryGrouped[2] \o column
                \o T_SummaryGrouped[3] \o column \o T_SummaryGrouped[4] \o column
                \o T_SummaryGrouped[5] \o column \o T_SummaryGrouped[6] \o tableName
                \o T_SummaryGrouped[7] \o groupBy \o W_OrderByCount
        overall ==
            T_SummaryColumn[1] \o column \o T_SummaryColumn[2] \o column
                \o T_SummaryColumn[3] \o column \o T_SummaryColumn[4] \o column
                \o T_SummaryColumn[5] \o tableName \o T_SummaryColumn[6]
        count == T_SummaryCount[1] \o tableName \o T_SummaryCount[2]
    IN  IF ~IsIdentifier(tableName) THEN Throws(S_InvalidTableName)
        ELSE IF Truthy(column)
        THEN IF ~IsIdentifier(column) THEN Throws(S_InvalidColumnName)
             ELSE IF Truthy(groupBy)
             THEN IF ~IsIdentifier(groupBy) THEN Throws(S_InvalidGroupBy)
                  ELSE executeQuery(e, dbName, grouped, <<>>)
             ELSE executeQuery(e, dbName, overall, <<>>)
        ELSE executeQuery(e, dbName, count, <<>>)

handleGetSummaryStats(dbName, tableName, column, groupBy, e) ==
    LET grouped ==
            T_SummaryGrouped[1] \o groupBy \o T_SummaryGrouped[2] \o column
                \o T_SummaryGrouped[3] \o column \o T_SummaryGrouped[4] \o column
                \o T_SummaryGrouped[5] \o column \o T_SummaryGrouped[6] \o tableName
                \o T_SummaryGrouped[7] \o groupBy \o T_SummaryGrouped[8]
        overall ==
            T_SummaryColumn[1] \o column \o T_SummaryColumn[2] \o column
                \o T_SummaryColumn[3] \o column \o T_SummaryColumn[4] \o column
                \o T_SummaryColumn[5] \o tableName \o T_SummaryColumn[6]
        count == T_SummaryCount[1] \o tableName \o T_SummaryCount[2]
    IN  IF ~IsIdentifier(tableName) THEN Throws(S_InvalidTableName)
        ELSE IF Truthy(column)
        THEN IF ~IsIdentifier(column) THEN Throws(S_InvalidColumnName)
             ELSE IF Truthy(groupBy)
             THEN IF ~IsIdentifier(groupBy) THEN Throws(S_InvalidGroupBy)
                  ELSE executeQuery(e, dbName, grouped, <<>>)
             ELSE executeQuery(e, dbName, overall, <<>>)
        ELSE executeQuery(e, dbName, count, <<>>)

\* handleQueryByDateRange checking the format of the start date only.
handleQueryByDateRange_StartOnly(dbName, tableName, dateColumn, startDate, endDate, limit, e) ==
    LET safeLimit == ClampLimit(limit, 500)
        query == T_DateRange[1] \o tableName \o T_DateRange[2] \o dateColumn
                     \o T_DateRange[3] \o dateColumn \o T_DateRange[4] \o dateColumn
                     \o T_DateRange[5] \o NumberToString(safeLimit) \o T_DateRange[6]
    IN  IF ~IsIdentifier(tableName) THEN Throws(S_InvalidTableName)
        ELSE IF ~IsIdentifier(dateColumn) THEN Throws(S_InvalidColumnName)
        ELSE IF ~IsDateFormat(startDate)
        THEN Throws(S_InvalidDate)
        ELSE executeQuery(e, dbName, query, <<startDate, endDate>>)

handleQueryByDateRange(dbName, tableName, dateColumn, startDate, endDate, limit, e) ==
    LET safeLimit == ClampLimit(limit, 500)
        query == T_DateRange[1] \o tableName \o T_DateRange[2] \o dateColumn
                     \o T_DateRange[3] \o dateColumn \o T_DateRange[4] \o dateColumn
                     \o T_DateRange[5] \o NumberToString(safeLimit) \o T_DateRange[6]
    IN  IF ~IsIdentifier(tableName) THEN Throws(S_InvalidTableName)
        ELSE IF ~IsIdentifier(dateColumn) THEN Throws(S_InvalidColumnName)
        ELSE IF ~IsDateFormat(startDate) \/ ~IsDateFormat(endDate)
        THEN Throws(S_InvalidDate)
        ELSE executeQuery(e, dbName, query, <<startDate, endDate>>)

\* (args.limit as number) || byDefault: a missing limit and 0 are falsy.
LimitOr(args, byDefault) ==
    IF "limit" \notin DOMAIN args \/ args.limit = 0 THEN byDefault ELSE args.limit

---------------------------------------------------------------------------
(* getTables, and the list_tables, describe_table and execute_query tools. *)

T_Tables ==
    <<"\n", " ", " ", " ", " ", "S", "E", "L", "E", "C", "T", " ", "n", "a", "m", "e", ",",
    " ", "t", "y", "p", "e", "\n", " ", " ", " ", " ", "F", "R", "O", "M", " ", "s", "q", "l",
    "i", "t", "e", "_", "m", "a", "s", "t", "e", "r", "\n", " ", " ", " ", " ", "W", "H", "E",
    "R", "E", " ", "t", "y", "p", "e", " ", "I", "N", " ", "(", "'", "t", "a", "b", "l", "e",
    "'", ",", " ", "'", "v", "i", "e", "w", "'", ")", "\n", " ", " ", " ", " ", "A", "N", "D",
    " ", "n", "a", "m", "e", " ", "N", "O", "T", " ", "L", "I", "K", "E", " ", "'", "s", "q",
    "l", "i", "t", "e", "_", "%", "'", "\n", " ", " ", " ", " ", "A", "N", "D", " ", "n", "a",
    "m", "e", " ", "N", "O", "T", " ", "L", "I", "K", "E", " ", "'", "_", "c", "f", "_", "%",
    "'", "\n", " ", " ", " ", " ", "O", "R", "D", "E", "R", " ", "B", "Y", " ", "n", "a", "m",
    "e", "\n", " ", " ">>
S_ListTablesHint ==
    <<"U", "s", "e", " ", "g", "e", "t", "_", "d", "a", "t", "a", "_", "d", "i", "c", "t", "i",
    "o", "n", "a", "r", "y", " ", "f", "o", "r", " ", "d", "e", "t", "a", "i", "l", "e", "d",
    " ", "c", "o", "l", "u", "m", "n", " ", "d", "e", "s", "c", "r", "i", "p", "t", "i", "o",
    "n", "s", ",", " ", "o", "r", " ", "d", "e", "s", "c", "r", "i", "b", "e", "_", "t", "a",
    "b", "l", "e", " ", "f", "o", "r", " ", "c", "o", "l", "u", "m", "n", " ", "n", "a", "m",
    "e", "s", " ", "a", "n", "d", " ", "t", "y", "p", "e", "s", ".">>
S_HollyMunicipality ==
    <<"V", "i", "l", "l", "a", "g", "e", " ", "o", "f", " ", "H", "o", "l", "l", "y">>
S_RockfordMunicipality ==
    <<"C", "i", "t", "y", " ", "o", "f", " ", "R", "o", "c", "k", "f", "o", "r", "d">>
S_HistoricalMunicipality ==
    <<"M", "u", "l", "t", "i", "p", "l", "e", " ", "m", "u", "n", "i", "c", "i", "p", "a", "l",
    "i", "t", "i", "e", "s">>

getTables(e, dbName) ==
    executeQuery(e, dbName, T_Tables, <<>>)

\* getTables from the await on: the rows, or [] when the query failed.
getTablesSettled(e, dbName, settled) ==
    LET result == executeQuerySettled(e, dbName, settled).value
    IN  IF ~result.success THEN <<>> ELSE result.data

\* The data dictionary as the module defines it; of a database's metadata
\* the municipality is kept.
DATA_DICTIONARY ==
    (S_holly :> [municipality |-> S_HollyMunicipality])
    @@ (S_rockford :> [municipality |-> S_RockfordMunicipality])
    @@ (S_historical :> [municipality |-> S_HistoricalMunicipality])

\* getDatabaseMetadata(dbName)?.municipality
Municipality(dbName) ==
    IF dbName \in DOMAIN dictionary THEN dictionary[dbName].municipality
    ELSE Undefined

\* handleListTables up to its await, inside getTables.
handleListTables(dbName, e) ==
    getTables(e, dbName)

\* handleListTables from the tables on. No table of the model is in the
\* data dictionary, so every description is null.
handleListTablesTables(dbName, tables) ==
    Returns([database |-> dbName,
             municipality |-> Municipality(dbName),
             tableCount |-> Len(tables),
             tables |-> [i \in DOMAIN tables |->
                            [name |-> tables[i].name, type |-> tables[i].type,
                             description |-> Null]],
             hint |-> S_ListTablesHint])

\* handleDescribeTable up to its first await, inside getTableColumns.
handleDescribeTable(dbName, tableName, e) ==
    getTableColumns(e, dbName, tableName)

\* handleDescribeTable from the row count on. Of a column the name and the
\* type are kept; the fields taken from the data dictionary are null.
handleDescribeTableRowCount(dbName, tableName, columns, rowCount) ==
    Returns([database |-> dbName,
             table |-> tableName,
             tableDescription |-> Null,
             rowCount |-> rowCount,
             columnCount |-> Len(columns),
             columns |-> [i \in DOMAIN columns |->
                             [name |-> columns[i].name, displayName |-> Null,
                              type |-> columns[i].type, description |-> Null,
                              unit |-> Null, knownValues |-> Null]]])

\* handleDescribeTable that does not ask for the row count.
handleDescribeTableColumns_NoCount(dbName, tableName, e, columns) ==
    handleDescribeTableRowCount(dbName, tableName, columns, 0)

\* handleDescribeTable from the columns on, up to its second await, inside
\* getTableRowCount; the columns stay in the suspended call.
handleDescribeTableColumns(dbName, tableName, e, columns) ==
    LET step == getTableRowCount(e, dbName, tableName)
        ended == handleDescribeTableRowCount(
                     dbName, tableName, columns,
                     getTableRowCountEnded(step.completion).value)
    IN  IF step.awaits
        THEN [awaits |-> TRUE, statement |-> step.statement, ops |-> step.ops,
              locals |-> [columns |-> columns]]
        ELSE IF step.completion.threw THEN step
        ELSE [ended EXCEPT !.ops = step.ops]

handleExecuteQuery(dbName, query, e) ==
    executeQuery(e, dbName, query, <<>>)

S_no_such_tool ==
    <<"n", "o", "_", "s", "u", "c", "h", "_", "t", "o", "o", "l">>
S_resources_list ==
    <<"r", "e", "s", "o", "u", "r", "c", "e", "s", "/", "l", "i", "s", "t">>
S_InstructionsOverview ==
    <<"Y", "o", "u", " ", "h", "a", "v", "e", " ", "a", "c", "c", "e", "s", "s", " ", "t", "o",
    " ", "m", "u", "n", "i", "c", "i", "p", "a", "l", " ", "a", "n", "a", "l", "y", "t", "i",
    "c", "s", " ", "d", "a", "t", "a", "b", "a", "s", "e", "s", " ", "f", "o", "r", " ", "M",
    "i", "c", "h", "i", "g", "a", "n", " ", "w", "a", "t", "e", "r", "/", "s", "e", "w", "e",
    "r", " ", "u", "t", "i", "l", "i", "t", "i", "e", "s", ".", " ", "F", "o", "l", "l", "o",
    "w", " ", "t", "h", "i", "s", " ", "w", "o", "r", "k", "f", "l", "o", "w", " ", "f", "o",
    "r", " ", "a", "c", "c", "u", "r", "a", "t", "e", " ", "r", "e", "s", "u", "l", "t", "s",
    ".">>
S_ListDatabasesUsage ==
    <<"U", "s", "e", " ", "g", "e", "t", "_", "d", "a", "t", "a", "_", "d", "i", "c", "t", "i",
    "o", "n", "a", "r", "y", " ", "t", "o", " ", "u", "n", "d", "e", "r", "s", "t", "a", "n",
    "d", " ", "w", "h", "a", "t", " ", "t", "a", "b", "l", "e", "s", " ", "a", "n", "d", " ",
    "c", "o", "l", "u", "m", "n", "s", " ", "c", "o", "n", "t", "a", "i", "n", " ", "b", "e",
    "f", "o", "r", "e", " ", "q", "u", "e", "r", "y", "i", "n", "g", ".", " ", "U", "s", "e",
    " ", "l", "i", "s", "t", "_", "t", "a", "b", "l", "e", "s", " ", "t", "o", " ", "s", "e",
    "e", " ", "a", "l", "l", " ", "t", "a", "b", "l", "e", " ", "n", "a", "m", "e", "s", ".">>
S_NoDatabaseMetadata ==
    <<"N", "o", " ", "m", "e", "t", "a", "d", "a", "t", "a", " ", "f", "o", "u", "n", "d", " ",
    "f", "o", "r", " ", "d", "a", "t", "a", "b", "a", "s", "e", ":", " ">>
S_NoTableMetadata ==
    <<"N", "o", " ", "m", "e", "t", "a", "d", "a", "t", "a", " ", "f", "o", "u", "n", "d", " ",
    "f", "o", "r", " ", "t", "a", "b", "l", "e", ":", " ">>
S_UseListTables ==
    <<".", " ", "U", "s", "e", " ", "l", "i", "s", "t", "_", "t", "a", "b", "l", "e", "s", " ",
    "t", "o", " ", "s", "e", "e", " ", "a", "v", "a", "i", "l", "a", "b", "l", "e", " ", "t",
    "a", "b", "l", "e", "s", ".">>
S_UnknownToolPrefix ==
    <<"U", "n", "k", "n", "o", "w", "n", " ", "t", "o", "o", "l", ":", " ">>

\* The characters of a tool or method name; of the names of the model the
\* ones no case of a switch matches are spelled out.
NameText(name) ==
    CASE name = "no_such_tool" -> S_no_such_tool
      [] name = "resources/list" -> S_resources_list

\* handleGetInstructions: of the instructions the overview is kept.
handleGetInstructions ==
    Returns([overview |-> S_InstructionsOverview])

getAvailableDatabases ==
    <<[name |-> S_holly, displayName |-> S_HollyDisplay],
      [name |-> S_rockford, displayName |-> S_RockfordDisplay],
      [name |-> S_historical, displayName |-> S_HistoricalDisplay]>>

\* handleListDatabases: of a database the name, the display name and the
\* municipality are kept.
handleListDatabases ==
    LET databases == getAvailableDatabases
    IN  Returns([databases |-> [i \in DOMAIN databases |->
                                   [name |-> databases[i].name,
                                    displayName |-> databases[i].displayName,
                                    municipality |-> Municipality(databases[i].name)]],
                 usage |-> S_ListDatabasesUsage])

\* handleGetDataDictionary. No table of the model is in the data
\* dictionary, so getTableMetadata finds none and the table descriptions
\* are left out.
handleGetDataDictionary(dbName, tableName) ==
    IF dbName \notin DOMAIN dictionary
    THEN Returns([success |-> FALSE, error |-> S_NoDatabaseMetadata \o dbName])
    ELSE IF Truthy(tableName)
    THEN Returns([success |-> FALSE,
                  error |-> S_NoTableMetadata \o tableName \o S_UseListTables])
    ELSE Returns([database |-> dbName, municipality |-> Municipality(dbName)])

\* handleToolCall up to the completion of the handler or to its first await;
\* get_audit_log, whose handler is in a module of its own, is left out.
handleToolCall(name, args, e) ==
    CASE name = "get_instructions" ->
            handleGetInstructions
      [] name = "list_databases" ->
            handleListDatabases
      [] name = "get_data_dictionary" ->
            handleGetDataDictionary(args.database, args.table)
      [] name = "list_tables" ->
            handleListTables(args.database, e)
      [] name = "describe_table" ->
            handleDescribeTable(args.database, args.table, e)
      [] name = "execute_query" ->
            handleExecuteQuery(args.database, args.query, e)
      [] name = "get_recent_records" ->
            handleGetRecentRecords(args.database, args.table, LimitOr(args, 10), e)
      [] name = "filter_by_column" ->
            handleFilterByColumn(args.database, args.table, args.filters,
                                 LimitOr(args, 100), e)
      [] name = "search_records" ->
            handleSearchRecords(args.database, args.table, args.search_term,
                                LimitOr(args, 50), e)
      [] name = "get_summary_stats" ->
            handleGetSummaryStats(args.database, args.table, args.column,
                                  args.group_by, e)
      [] name = "query_by_date_range" ->
            handleQueryByDateRange(args.database, args.table, args.date_column,
                                   args.start_date, args.end_date,
                                   LimitOr(args, 100), e)
      [] OTHER ->
            Throws(S_UnknownToolPrefix \o NameText(name))

---------------------------------------------------------------------------
(* Query strings for the validator: every concatenation of at most         *)
(* MaxFrags fragments, the fragments being the three allowed prefixes, a   *)
(* space, a word character, a semicolon, and two of the forbidden keywords *)
(* (each of the ten keywords is in one of the pairs, in mixed letter case).*)

MaxFrags ==
    3

F_SELECT ==
    <<"S", "E", "L", "E", "C", "T">>
F_with ==
    <<"w", "i", "t", "h">>
F_Pragma ==
    <<"P", "r", "a", "g", "m", "a">>
F_INSERT ==
    <<"I", "N", "S", "E", "R", "T">>
F_update ==
    <<"u", "p", "d", "a", "t", "e">>
F_Delete ==
    <<"D", "e", "l", "e", "t", "e">>
F_DROP ==
    <<"D", "R", "O", "P">>
F_alter ==
    <<"a", "l", "t", "e", "r">>
F_CREATE ==
    <<"C", "R", "E", "A", "T", "E">>
F_replace ==
    <<"r", "e", "p", "l", "a", "c", "e">>
F_Truncate ==
    <<"T", "r", "u", "n", "c", "a", "t", "e">>
F_ATTACH ==
    <<"A", "T", "T", "A", "C", "H">>
F_detach ==
    <<"d", "e", "t", "a", "c", "h">>

BaseFragments ==
    {F_SELECT, F_with, F_Pragma, <<" ">>, <<"_">>, <<";">>}

KeywordPairs ==
    {{F_INSERT, F_update}, {F_Delete, F_DROP}, {F_alter, F_CREATE},
     {F_replace, F_Truncate}, {F_ATTACH, F_detach}}

RECURSIVE Concats(_, _)
Concats(n, fragments) ==
    IF n = 0 THEN {<<>>}
    ELSE LET shorter == Concats(n - 1, fragments)
         IN  shorter \cup {q \o f : q \in shorter, f \in fragments}

Q_SelectDropoutRate ==
    <<"S", "E", "L", "E", "C", "T", " ", "d", "r", "o", "p", "o", "u", "t", "_", "r", "a", "t",
    "e", " ", "F", "R", "O", "M", " ", "t">>
Q_SelectCreated ==
    <<"s", "e", "l", "e", "c", "t", " ", "c", "r", "e", "a", "t", "e", "d", ",", " ", "u", "p",
    "d", "a", "t", "e", "d", "_", "a", "t", " ", "f", "r", "o", "m", " ", "d", "r", "o", "p",
    "_", "t", "a", "b", "l", "e">>
Q_UpdateOrders ==
    <<"U", "P", "D", "A", "T", "E", " ", "o", "r", "d", "e", "r", "s", " ", "S", "E", "T", " ",
    "x", "=", "1">>
Q_SelectCreateDelete ==
    <<"S", "E", "L", "E", "C", "T", " ", "1", ";", " ", "C", "R", "E", "A", "T", "E", " ", "T",
    "A", "B", "L", "E", " ", "u", "(", "a", ")", ";", " ", "d", "e", "l", "e", "t", "e", " ",
    "f", "r", "o", "m", " ", "t">>

\* Statements as callers write them: identifiers that hold a keyword inside
\* a longer word, a write, and a read followed by two writes.
WrittenQueries ==
    {Q_SelectDropoutRate, Q_SelectCreated, Q_UpdateOrders, Q_SelectCreateDelete}

ValidatorQueries ==
    UNION {Concats(MaxFrags, BaseFragments \cup pair) : pair \in KeywordPairs}
    \cup WrittenQueries

---------------------------------------------------------------------------
(* Calls of executeQuery: a statement, with or without leading white       *)
(* space, a LIMIT clause of its own and a trailing semicolon; a database   *)
(* name, one of them outside the three configured; a parameter list; the   *)
(* configured MAX_RESULT_ROWS; and the backend's behaviour.                *)

Q_SelectAll ==
    <<"S", "E", "L", "E", "C", "T", " ", "*", " ", "F", "R", "O", "M", " ", "t">>
Q_SelectCreditLimit ==
    <<"s", "e", "l", "e", "c", "t", " ", "c", "r", "e", "d", "i", "t", "_", "l", "i", "m", "i",
    "t", " ", "f", "r", "o", "m", " ", "t">>
Q_WithCte ==
    <<"W", "I", "T", "H", " ", "c", " ", "A", "S", " ", "(", "S", "E", "L", "E", "C", "T", " ",
    "a", " ", "F", "R", "O", "M", " ", "t", ")", " ", "S", "E", "L", "E", "C", "T", " ", "*",
    " ", "F", "R", "O", "M", " ", "c">>
Q_PragmaTableInfo ==
    <<"P", "R", "A", "G", "M", "A", " ", "t", "a", "b", "l", "e", "_", "i", "n", "f", "o", "(",
    "t", ")">>
Q_SelectWhereParam ==
    <<"S", "E", "L", "E", "C", "T", " ", "*", " ", "F", "R", "O", "M", " ", "t", " ", "W", "H",
    "E", "R", "E", " ", "a", " ", "=", " ", "?">>
Q_SelectLiteralLimit ==
    <<"S", "E", "L", "E", "C", "T", " ", "*", " ", "F", "R", "O", "M", " ", "t", " ", "W", "H",
    "E", "R", "E", " ", "a", " ", "=", " ", "'", "n", "o", " ", "L", "I", "M", "I", "T", "'">>
Q_Update ==
    <<"U", "P", "D", "A", "T", "E", " ", "t", " ", "S", "E", "T", " ", "a", " ", "=", " ", "1">>
Q_SelectThenDrop ==
    <<"S", "E", "L", "E", "C", "T", " ", "*", " ", "F", "R", "O", "M", " ", "t", ";", " ", "D",
    "R", "O", "P", " ", "T", "A", "B", "L", "E", " ", "t">>
Q_SelectThenSelect ==
    <<"S", "E", "L", "E", "C", "T", " ", "*", " ", "F", "R", "O", "M", " ", "t", ";", " ", "S",
    "E", "L", "E", "C", "T", " ", "*", " ", "F", "R", "O", "M", " ", "t">>
S_LimitUpper ==
    <<" ", "L", "I", "M", "I", "T", " ">>
S_LimitLower ==
    <<" ", "l", "i", "m", "i", "t", " ">>

MaxOwnLimit ==
    2

MaxConfiguredRows ==
    2

MaxMatching ==
    4

Statements ==
    {<<>>, Q_SelectAll, Q_SelectCreditLimit, Q_WithCte, Q_PragmaTableInfo,
     Q_SelectWhereParam, Q_SelectLiteralLimit, Q_Update, Q_SelectThenDrop,
     Q_SelectThenSelect}

OwnLimits ==
    {<<>>} \cup {kw \o NumberToString(n) : kw \in {S_LimitUpper, S_LimitLower},
                                           n \in 1..MaxOwnLimit}

ExecutorQueries ==
    {lead \o stmt \o lim \o tail :
        lead \in {<<>>, <<" ">>}, stmt \in Statements,
        lim \in OwnLimits, tail \in {<<>>, <<";">>, <<";", " ">>}}

DatabaseNames ==
    {S_holly, S_rockford, S_historical, S_other}

ParamLists ==
    {<<>>, <<<<"7">>>>}

\* An Env: the three D1 bindings (opaque handles) and MAX_RESULT_ROWS.
Bindings(maxResultRows) ==
    [HOLLY_DB |-> "HOLLY_DB", ROCKFORD_DB |-> "ROCKFORD_DB",
     HISTORICAL_DB |-> "HISTORICAL_DB", MAX_RESULT_ROWS |-> maxResultRows]

Envs ==
    {Bindings(m) : m \in {Undefined, <<>>}
                         \cup {NumberToString(n) : n \in 1..MaxConfiguredRows}}

Rejections ==
    {[outcome |-> o, rows |-> <<>>] : o \in {"rejectError", "rejectNonError"}}

Backends ==
    {[outcome |-> "resolve", rows |-> Rows(m)] :
        m \in 0..MaxMatching
              \cup {parseInt(S_DefaultMaxRows), parseInt(S_DefaultMaxRows) + 1}}
    \cup Rejections

---------------------------------------------------------------------------
(* The state before a call, and how a call's completion is recorded.       *)

Pending ==
    [kind |-> "pending"]

\* The call is suspended at an await on the backend.
Awaiting ==
    [kind |-> "awaiting"]

Completion(c) ==
    IF c.threw THEN [kind |-> "throw", error |-> c.error]
    ELSE [kind |-> "return", value |-> c.value]

NoEnv ==
    Bindings(Undefined)

NoBackend ==
    [outcome |-> "unused", rows |-> <<>>]

Idle(in) ==
    /\ input = in
    /\ env = NoEnv
    /\ backend = NoBackend
    /\ ret = Pending
    /\ ops = <<>>
    /\ sent = <<>>
    /\ fetched = <<>>
    /\ dictionary = DATA_DICTIONARY

---------------------------------------------------------------------------
(* The validator on its own.                                               *)

InitValidate ==
    \E q \in ValidatorQueries : Idle([op |-> "validateReadOnlyQuery", query |-> q])

Validate ==
    /\ input.op = "validateReadOnlyQuery"
    /\ ret = Pending
    /\ ret' = Completion(validateReadOnlyQuery(input.query))
    /\ UNCHANGED <<input, env, backend, ops, sent, fetched, dictionary>>

NextValidate ==
    Validate

SpecValidate ==
    InitValidate /\ [][NextValidate]_vars

---------------------------------------------------------------------------
(* executeQuery.                                                           *)

Init ==
    \E q \in ExecutorQueries, d \in DatabaseNames, p \in ParamLists :
        Idle([op |-> "executeQuery", database |-> d, query |-> q, params |-> p])

\* The call, up to its completion by the catch block or to its await.
ExecuteQuery ==
    /\ input.op = "executeQuery"
    /\ ret = Pending
    /\ \E e \in Envs :
          LET r == executeQuery(e, input.database, input.query, input.params)
          IN  /\ env' = e
              /\ ops' = r.ops
              /\ IF r.awaits
                 THEN ret' = Awaiting /\ sent' = <<r.statement>>
                 ELSE ret' = Completion(r.completion) /\ sent' = <<>>
    /\ UNCHANGED <<input, backend, fetched, dictionary>>

\* The backend settles the statement and the call runs to its end.
ExecuteQuerySettled ==
    /\ input.op = "executeQuery"
    /\ ret = Awaiting
    /\ \E b \in Backends :
          LET settled == D1PrepareBindAll(b, sent[1].sql, sent[1].params)
          IN  /\ backend' = b
              /\ fetched' = IF settled.threw THEN <<>>
                            ELSE <<Len(settled.value.results)>>
              /\ ret' = Completion(executeQuerySettled(env, input.database, settled))
    /\ UNCHANGED <<input, env, ops, sent, dictionary>>

Next ==
    \/ ExecuteQuery
    \/ ExecuteQuerySettled

Spec ==
    Init /\ [][Next]_vars

---------------------------------------------------------------------------
(* Arguments of the tool calls and the answers of the backend to them.     *)

N_orders ==
    <<"o", "r", "d", "e", "r", "s">>
N_update ==
    <<"u", "p", "d", "a", "t", "e">>
N_replace ==
    <<"r", "e", "p", "l", "a", "c", "e">>
N_delete ==
    <<"d", "e", "l", "e", "t", "e">>
N_1bad ==
    <<"1", "b", "a", "d">>
N_amount ==
    <<"a", "m", "o", "u", "n", "t">>
N_region ==
    <<"r", "e", "g", "i", "o", "n">>
N_created_at ==
    <<"c", "r", "e", "a", "t", "e", "d", "_", "a", "t">>
N_id ==
    <<"i", "d">>
N_name ==
    <<"n", "a", "m", "e">>
V_north ==
    <<"n", "o", "r", "t", "h">>
V_NorthPattern ==
    <<"%", "N", "o", "r", "t", "h", "%">>
V_Smith ==
    <<"S", "m", "i", "t", "h">>
D_January15 ==
    <<"2", "0", "2", "4", "-", "0", "1", "-", "1", "5">>
D_Month13 ==
    <<"2", "0", "2", "4", "-", "1", "3", "-", "0", "1">>
D_ShortDigits ==
    <<"2", "0", "2", "4", "-", "1", "-", "1">>
D_December31 ==
    <<"2", "0", "2", "4", "-", "1", "2", "-", "3", "1">>
D_Slashes ==
    <<"1", "2", "/", "3", "1", "/", "2", "0", "2", "4">>
Y_INTEGER ==
    <<"I", "N", "T", "E", "G", "E", "R">>
Y_text ==
    <<"t", "e", "x", "t">>
Y_varchar20 ==
    <<"v", "a", "r", "c", "h", "a", "r", "(", "2", "0", ")">>
S_CountStar ==
    <<"C", "O", "U", "N", "T", "(", "*", ")">>
S_GroupBy ==
    <<"G", "R", "O", "U", "P", " ", "B", "Y">>

MaxToolMatching ==
    3

TableNames ==
    {N_orders, N_update, N_1bad}

ToolDatabaseNames ==
    {S_holly, S_other}

\* args with and without the optional limit.
WithLimits(args) ==
    {args} \cup {[limit |-> n] @@ args : n \in {0, -3, 2, 1000}}

FilterSets ==
    { <<>>,
      <<[column |-> N_region, value |-> String(V_north)]>>,
      <<[column |-> N_region, value |-> String(V_NorthPattern)]>>,
      <<[column |-> N_region, value |-> String(V_NorthPattern)],
        [column |-> N_amount, value |-> Number(5)]>>,
      <<[column |-> N_1bad, value |-> Null]>>,
      <<[column |-> N_region, value |-> Null],
        [column |-> N_1bad, value |-> Number(1)]>>,
      <<[column |-> N_region, value |-> Null],
        [column |-> N_1bad, value |-> String(V_north)],
        [column |-> N_amount, value |-> Number(5)],
        [column |-> N_name, value |-> String(V_NorthPattern)]>>,
      <<[column |-> N_replace, value |-> String(V_north)]>> }

Targets ==
    {[database |-> d, table |-> t] : d \in ToolDatabaseNames, t \in TableNames}

RecentCalls ==
    UNION {WithLimits(target) : target \in Targets}

FilterCalls ==
    UNION {WithLimits([filters |-> f] @@ target) :
               target \in Targets, f \in FilterSets}

SearchCalls ==
    UNION {WithLimits([search_term |-> V_Smith] @@ target) : target \in Targets}

SummaryCalls ==
    {[column |-> c, group_by |-> g] @@ target :
        target \in Targets,
        c \in {Undefined, <<>>, N_amount, N_1bad, N_delete},
        g \in {Undefined, N_region, N_1bad}}

DateRangeCalls ==
    UNION {WithLimits([date_column |-> c, start_date |-> from, end_date |-> to]
                          @@ target) :
               target \in Targets,
               c \in {N_created_at, N_1bad},
               from \in {D_January15, D_Month13, D_ShortDigits},
               to \in {D_December31, D_Slashes}}

ListCalls ==
    {[database |-> d] : d \in ToolDatabaseNames}

ExecuteCalls ==
    {[database |-> d, query |-> q] :
        d \in ToolDatabaseNames, q \in {Q_SelectAll, Q_Update, Q_PragmaTableInfo}}

ToolCalls ==
    {[op |-> "list_tables", args |-> a] : a \in ListCalls}
    \cup {[op |-> "describe_table", args |-> a] : a \in Targets}
    \cup {[op |-> "execute_query", args |-> a] : a \in ExecuteCalls}
    \cup {[op |-> "get_recent_records", args |-> a] : a \in RecentCalls}
    \cup {[op |-> "filter_by_column", args |-> a] : a \in FilterCalls}
    \cup {[op |-> "search_records", args |-> a] : a \in SearchCalls}
    \cup {[op |-> "get_summary_stats", args |-> a] : a \in SummaryCalls}
    \cup {[op |-> "query_by_date_range", args |-> a] : a \in DateRangeCalls}

HelperCalls ==
    {[op |-> o, args |-> target] :
        o \in {"getTableColumns", "getTableRowCount"}, target \in Targets}

ToolEnvs ==
    {Bindings(Undefined), Bindings(<<"2">>)}

\* The rows of PRAGMA table_info: of each column its name and declared type.
Schemas ==
    { <<>>,
      <<[name |-> N_id, type |-> Y_INTEGER]>>,
      <<[name |-> N_name, type |-> Y_text],
        [name |-> N_amount, type |-> Y_INTEGER],
        [name |-> N_region, type |-> Y_varchar20]>>,
      <<[name |-> N_delete, type |-> Y_text]>> }

\* LIMIT 50 of the grouped summary.
SummaryGroupLimit ==
    50

Y_table ==
    <<"t", "a", "b", "l", "e">>
Y_view ==
    <<"v", "i", "e", "w">>
N_recent_orders ==
    <<"r", "e", "c", "e", "n", "t", "_", "o", "r", "d", "e", "r", "s">>
S_sqlite_master ==
    <<"s", "q", "l", "i", "t", "e", "_", "m", "a", "s", "t", "e", "r">>

\* The rows of getTables' statement: of each table or view its name and type.
TableLists ==
    { <<>>,
      <<[name |-> N_orders, type |-> Y_table]>>,
      <<[name |-> N_orders, type |-> Y_table],
        [name |-> N_recent_orders, type |-> Y_view]>> }

\* What the backend can answer to a statement: a rejection; the columns of
\* the table for PRAGMA table_info; the tables for getTables' statement; one
\* row for an aggregate without GROUP BY (carrying the count for
\* getTableRowCount's statement); else any rows.
ToolBackends(sql) ==
    Rejections
    \cup {[outcome |-> "resolve", rows |-> r] :
            r \in IF startsWith(toUpperCase(trim(sql)), S_PRAGMA) THEN Schemas
                  ELSE IF includes(sql, S_sqlite_master) THEN TableLists
                  ELSE IF startsWith(sql, T_RowCount[1])
                  THEN {<<[count |-> m]>> : m \in 0..MaxToolMatching}
                  ELSE IF includes(sql, S_CountStar) /\ ~includes(sql, S_GroupBy)
                  THEN {Rows(1)}
                  ELSE {Rows(m) : m \in 0..MaxToolMatching \cup {SummaryGroupLimit + 1}}}

---------------------------------------------------------------------------
(* The tool handlers and the table helpers.                                *)

InitTools ==
    \E call \in ToolCalls \cup HelperCalls : Idle(call)

\* What a step of a call leaves: the call suspended at the await on the
\* statement, or completed.
Stepped(step) ==
    /\ ops' = ops \o step.ops
    /\ IF step.awaits
       THEN /\ sent' = Append(sent, step.statement)
            /\ ret' = IF "locals" \in DOMAIN step
                      THEN [kind |-> "awaiting", locals |-> step.locals]
                      ELSE Awaiting
       ELSE ret' = Completion(step.completion) /\ sent' = sent

\* handleSearchRecords when getTableColumns has returned the columns.
SearchStep(e, columns) ==
    handleSearchRecordsColumns(input.args.database, input.args.table,
                               input.args.search_term,
                               LimitOr(input.args, 50), e, columns)

\* A step followed, when it has not suspended or thrown, by the rest of
\* handleSearchRecords.
ThenSearch(e, step) ==
    IF step.awaits \/ step.completion.threw THEN step
    ELSE LET rest == SearchStep(e, getTableColumnsEnded(step.completion).value)
         IN  [rest EXCEPT !.ops = step.ops \o rest.ops]

\* A step followed, when it has not suspended or thrown, by the rest of
\* handleDescribeTable.
ThenDescribe(e, step) ==
    IF step.awaits \/ step.completion.threw THEN step
    ELSE LET rest == handleDescribeTableColumns(
                         input.args.database, input.args.table, e,
                         getTableColumnsEnded(step.completion).value)
         IN  [rest EXCEPT !.ops = step.ops \o rest.ops]

\* A step followed, when it has not suspended, by the rest of
\* handleListTables: getTables has returned [].
ThenList(step) ==
    IF step.awaits THEN step
    ELSE [handleListTablesTables(input.args.database, <<>>) EXCEPT !.ops = step.ops]

\* handleToolCall, up to the completion of the handler or to its first await.
CallTool ==
    /\ input.op \in {call.op : call \in ToolCalls}
    /\ ret = Pending
    /\ \E e \in ToolEnvs :
          LET step == handleToolCall(input.op, input.args, e)
          IN  /\ env' = e
              /\ Stepped(CASE input.op = "search_records" -> ThenSearch(e, step)
                           [] input.op = "describe_table" -> ThenDescribe(e, step)
                           [] input.op = "list_tables" -> ThenList(step)
                           [] OTHER -> step)
    /\ UNCHANGED <<input, backend, fetched, dictionary>>

\* getTableColumns or getTableRowCount, up to its completion or its await.
CallHelper ==
    /\ input.op \in {call.op : call \in HelperCalls}
    /\ ret = Pending
    /\ \E e \in ToolEnvs :
          LET step == IF input.op = "getTableColumns"
                      THEN getTableColumns(e, input.args.database, input.args.table)
                      ELSE getTableRowCount(e, input.args.database, input.args.table)
              ended == IF input.op = "getTableColumns"
                       THEN getTableColumnsEnded(step.completion)
                       ELSE getTableRowCountEnded(step.completion)
          IN  /\ env' = e
              /\ Stepped(IF step.awaits THEN step
                         ELSE [step EXCEPT !.completion = ended])
    /\ UNCHANGED <<input, backend, fetched, dictionary>>

\* The backend settles the statement awaited and the call runs on, to its
\* end or, in handleSearchRecords and handleDescribeTable after the columns,
\* to its second await.
BackendSettles ==
    /\ input.op \in {call.op : call \in ToolCalls \cup HelperCalls}
    /\ ret.kind = "awaiting"
    /\ \E b \in ToolBackends(sent[Len(sent)].sql) :
          LET statement == sent[Len(sent)]
              settled == D1PrepareBindAll(b, statement.sql, statement.params)
              dbName == input.args.database
          IN  /\ backend' = b
              /\ fetched' = IF settled.threw THEN fetched
                            ELSE Append(fetched, Len(settled.value.results))
              /\ Stepped(
                    IF input.op = "getTableColumns"
                    THEN Returns(getTableColumnsSettled(env, dbName, settled))
                    ELSE IF input.op = "getTableRowCount"
                    THEN Returns(getTableRowCountSettled(env, dbName, settled))
                    ELSE IF input.op = "search_records" /\ Len(sent) = 1
                    THEN SearchStep(env, getTableColumnsSettled(env, dbName, settled))
                    ELSE IF input.op = "list_tables"
                    THEN handleListTablesTables(
                             dbName, getTablesSettled(env, dbName, settled))
                    ELSE IF input.op = "describe_table" /\ ret = Awaiting
                    THEN handleDescribeTableColumns(
                             dbName, input.args.table, env,
                             getTableColumnsSettled(env, dbName, settled))
                    ELSE IF input.op = "describe_table"
                    THEN handleDescribeTableRowCount(
                             dbName, input.args.table, ret.locals.columns,
                             getTableRowCountSettled(env, dbName, settled))
                    ELSE [awaits |-> FALSE, ops |-> <<>>,
                          completion |-> executeQuerySettled(env, dbName, settled)])
    /\ UNCHANGED <<input, env, dictionary>>

NextTools ==
    \/ CallTool
    \/ CallHelper
    \/ BackendSettles

SpecTools ==
    InitTools /\ [][NextTools]_vars

---------------------------------------------------------------------------
(* buildWhereClause on its own.                                            *)

MaxFilterEntries ==
    3

FilterColumns ==
    {N_region, N_amount, N_1bad, <<>>}

FilterValues ==
    {Null, String(V_north), String(V_NorthPattern), Number(5)}

\* Object.entries of a filter object: its keys are distinct.
RECURSIVE FilterEntries(_)
FilterEntries(n) ==
    IF n = 0 THEN {<<>>}
    ELSE LET shorter == FilterEntries(n - 1)
         IN  shorter
             \cup {Append(f, [column |-> c, value |-> v]) :
                     f \in {g \in shorter : Len(g) = n - 1},
                     c \in FilterColumns, v \in FilterValues}

WhereFilters ==
    {f \in FilterEntries(MaxFilterEntries) :
        \A i, j \in DOMAIN f : i # j => f[i].column # f[j].column}

InitWhere ==
    \E f \in WhereFilters : Idle([op |-> "buildWhereClause", filters |-> f])

BuildWhereClause ==
    /\ input.op = "buildWhereClause"
    /\ ret = Pending
    /\ ret' = Completion(Normal(buildWhereClause(input.filters)))
    /\ UNCHANGED <<input, env, backend, ops, sent, fetched, dictionary>>

NextWhere ==
    BuildWhereClause

SpecWhere ==
    InitWhere /\ [][NextWhere]_vars

---------------------------------------------------------------------------
(* What the claims say of a query string, stated apart from the code.      *)

SameLetterIgnoringCase(a, b) ==
    a = b \/ \E i \in 1..26 : {a, b} = {Lower[i], Upper[i]}

\* word occurs in q, in any letter case, with no letter, digit or underscore
\* next to it on either side.
OccursAsWholeWord(q, word) ==
    \E i \in 1..Len(q) :
        /\ i + Len(word) - 1 <= Len(q)
        /\ \A j \in 1..Len(word) : SameLetterIgnoringCase(q[i + j - 1], word[j])
        /\ (i = 1 \/ ~IsWordChar(q[i - 1]))
        /\ (i + Len(word) > Len(q) \/ ~IsWordChar(q[i + Len(word)]))

HasForbiddenWord(q) ==
    \E k \in 1..Len(forbiddenKeywords) : OccursAsWholeWord(q, forbiddenKeywords[k])

HasAllowedPrefix(q) ==
    \E k \in 1..Len(allowedPrefixes) : startsWith(toUpperCase(trim(q)), allowedPrefixes[k])

Validated ==
    input.op = "validateReadOnlyQuery" /\ ret.kind # "pending"

---------------------------------------------------------------------------
(* C1: validateReadOnlyQuery throws for every query string that contains   *)
(* one of the ten forbidden keywords as a whole word, in any letter case   *)
(* and at any position, also when the query begins with SELECT, WITH or    *)
(* PRAGMA.                                                                 *)
C1_ForbiddenWordRejected ==
    (Validated /\ HasForbiddenWord(input.query)) => ret.kind = "throw"

\* SELECT;update is rejected for the keyword, which stands after a semicolon
\* in lower case behind an allowed prefix.
C1_Witness ==
    /\ Validated
    /\ input.query = F_SELECT \o <<";">> \o F_update
    /\ ret.kind = "throw"
    /\ ret.error.message = S_ForbiddenPrefix \o S_UPDATE

(* C2: validateReadOnlyQuery throws for every string whose trimmed,        *)
(* upper-cased form does not start with SELECT, WITH or PRAGMA, the empty  *)
(* and the whitespace-only string included.                                *)
C2_NoAllowedPrefixRejected ==
    (Validated /\ ~HasAllowedPrefix(input.query)) => ret.kind = "throw"

\* A whitespace-only query is rejected by the prefix check.
C2_Witness ==
    /\ Validated
    /\ input.query = <<" ", " ">>
    /\ ret.kind = "throw"
    /\ ret.error.message = S_OnlySelect

---------------------------------------------------------------------------
(* What the claims say of a call of executeQuery, stated apart from the    *)
(* code.                                                                   *)

DefaultCap ==
    1000

\* The configured row cap: MAX_RESULT_ROWS, 1000 when it is not set.
Cap ==
    IF env.MAX_RESULT_ROWS \in {Undefined, <<>>} THEN DefaultCap
    ELSE DigitsValue(env.MAX_RESULT_ROWS)

\* The number of rows the backend has for the statement without its LIMIT.
Matching ==
    Len(backend.rows)

Called ==
    input.op = "executeQuery" /\ ret.kind # "pending"

Succeeded ==
    input.op = "executeQuery" /\ ret.kind = "return" /\ ret.value.success

Failed ==
    input.op = "executeQuery" /\ ret.kind = "return" /\ ~ret.value.success

IsPragmaStatement(q) ==
    startsWith(toUpperCase(trim(q)), S_PRAGMA)

ContainsIgnoringCase(q, word) ==
    \E i \in 1..(Len(q) - Len(word) + 1) :
        \A j \in 1..Len(word) : SameLetterIgnoringCase(q[i + j - 1], word[j])

\* The statement has a LIMIT clause of its own, as the backend reads it.
HasOwnLimitClause(q) ==
    StatementLimit(q) # {}

\* The trimmed statement with one trailing semicolon removed.
WithoutTrailingSemicolon(q) ==
    LET t == trim(q)
    IN  IF t # <<>> /\ t[Len(t)] = ";" THEN SubSeq(t, 1, Len(t) - 1) ELSE t

---------------------------------------------------------------------------
(* C3: when the validator rejects the SQL of an executeQuery call, no      *)
(* backend operation (database resolution, prepare, bind, all) is          *)
(* performed, and the call returns success=false with the validator's      *)
(* message as its error.                                                   *)
C3_RejectedNeverReachesBackend ==
    (Called /\ validateReadOnlyQuery(input.query).threw) =>
        /\ ops = <<>>
        /\ sent = <<>>
        /\ ret.kind = "return"
        /\ ret.value.success = FALSE
        /\ ret.value.error = validateReadOnlyQuery(input.query).error.message

\* UPDATE t SET a = 1 against a database name that is not configured: the
\* failure is the validator's, and the database was never resolved.
C3_Witness ==
    /\ Failed
    /\ input.query = Q_Update
    /\ input.database = S_other
    /\ ret.value.error = S_OnlySelect
    /\ ops = <<>>

C6_RowsWithinCap ==
    Succeeded =>
        /\ Len(ret.value.data) <= Cap
        /\ ret.value.rowCount = Len(ret.value.data)

\* The caller's own LIMIT is above the cap and the backend returned more rows
\* than the cap.
C6_Witness ==
    /\ Succeeded
    /\ \E n \in StatementLimit(input.query) : n > Cap
    /\ fetched[1] > Cap
    /\ Len(ret.value.data) = Cap

(* C7 as stated: for every accepted query executed, cap+1 or more matching *)
(* rows give truncated=true and exactly cap rows, and fewer give           *)
(* truncated=false and as many rows as match.                              *)
C7_TruncationLawEveryQuery ==
    Succeeded =>
        /\ Matching >= Cap + 1 =>
              ret.value.truncated /\ Len(ret.value.data) = Cap
        /\ Matching < Cap + 1 =>
              ~ret.value.truncated /\ Len(ret.value.data) = Matching

(* C7, amended: the truncation law holds for every accepted query that     *)
(* has no LIMIT clause of its own.                                         *)
C7_TruncationLawWithoutOwnLimit ==
    (Succeeded /\ ~HasOwnLimitClause(input.query)) =>
        /\ Matching >= Cap + 1 =>
              ret.value.truncated /\ Len(ret.value.data) = Cap
        /\ Matching < Cap + 1 =>
              ~ret.value.truncated /\ Len(ret.value.data) = Matching

\* LIMIT cap+1 was appended, the backend had more rows than that, and the
\* result is cut to the cap and flagged.
C7_Witness ==
    /\ Succeeded
    /\ ~HasOwnLimitClause(input.query)
    /\ HasOwnLimitClause(sent[1].sql)
    /\ Matching > Cap + 1
    /\ ret.value.truncated
    /\ Len(ret.value.data) = Cap

(* C8: in a successful result, truncated is true exactly when the backend  *)
(* returned more rows than the cap for the statement executed.             *)
C8_TruncatedIffFetchedAboveCap ==
    Succeeded => (ret.value.truncated <=> fetched[1] > Cap)

\* The backend returned exactly cap rows: not truncated.
C8_Witness ==
    /\ Succeeded
    /\ Cap > 0
    /\ fetched[1] = Cap
    /\ ~ret.value.truncated

(* C9: for every accepted statement that is no PRAGMA and has no LIMIT     *)
(* clause of its own, the SQL sent to the backend is the trimmed statement *)
(* without one trailing semicolon followed by ' LIMIT <cap+1>', also when  *)
(* the letters LIMIT occur inside an identifier or a string literal.       *)
C9_LimitAppended ==
    (/\ input.op = "executeQuery"
     /\ sent # <<>>
     /\ ~IsPragmaStatement(input.query)
     /\ ~HasOwnLimitClause(input.query)) =>
        sent[1].sql = WithoutTrailingSemicolon(input.query)
                          \o S_LimitInfix \o NumberToString(Cap + 1)

(* C10: an accepted statement that is a PRAGMA or contains LIMIT in any    *)
(* letter case is sent to the backend exactly as the caller wrote it.      *)
C10_PassedThroughUnchanged ==
    (/\ input.op = "executeQuery"
     /\ sent # <<>>
     /\ IsPragmaStatement(input.query) \/ ContainsIgnoringCase(input.query, S_LIMIT)) =>
        sent[1].sql = input.query

\* A statement with leading white space, its own lower-case limit and a
\* trailing semicolon reaches the backend with all three.
C10_Witness ==
    /\ input.op = "executeQuery"
    /\ sent # <<>>
    /\ input.query = <<" ">> \o Q_SelectAll \o S_LimitLower \o <<"2", ";">>
    /\ sent[1].sql = input.query

---------------------------------------------------------------------------
(* The handlers and the table helpers: results and exceptions.             *)

HandlerOps ==
    {"get_recent_records", "filter_by_column", "search_records",
     "get_summary_stats", "query_by_date_range"}

HelperOps ==
    {"getTableColumns", "getTableRowCount"}

Completed ==
    ret.kind \in {"return", "throw"}

\* A discriminated result: success with data, or failure with a message.
IsDiscriminatedResult(value) ==
    /\ "success" \in DOMAIN value
    /\ value.success => "data" \in DOMAIN value
    /\ ~value.success => "error" \in DOMAIN value /\ value.error # <<>>

\* The call has an argument that the operation checks and that fails the
\* check: the table name always; the column of a summary when one is given
\* and the group-by name when both are given; the date column and the two
\* dates of a date range.
HasInvalidArgument ==
    \/ ~IsIdentifier(input.args.table)
    \/ /\ input.op = "get_summary_stats"
       /\ Truthy(input.args.column)
       /\ \/ ~IsIdentifier(input.args.column)
          \/ Truthy(input.args.group_by) /\ ~IsIdentifier(input.args.group_by)
    \/ /\ input.op = "query_by_date_range"
       /\ \/ ~IsIdentifier(input.args.date_column)
          \/ ~IsDateFormat(input.args.start_date)
          \/ ~IsDateFormat(input.args.end_date)

ValidationMessages ==
    {S_InvalidTableName, S_InvalidColumnName, S_InvalidGroupBy, S_InvalidDate}

---------------------------------------------------------------------------
(* The row limit of a tool call.                                           *)

\* The largest limit of the tool, as its description states it.
ToolMaximum ==
    [get_recent_records |-> 100, search_records |-> 200,
     filter_by_column |-> 500, query_by_date_range |-> 500]

LimitedOps ==
    DOMAIN ToolMaximum

\* The statement that fetches the rows of the tool call has been sent.
DataStatementSent ==
    Len(sent) = IF input.op = "search_records" THEN 2 ELSE 1

DataStatement ==
    sent[Len(sent)]

\* C11: when the caller of get_recent_records (max 100), search_records
\* (max 200), filter_by_column (max 500) or query_by_date_range (max 500)
\* requests a limit, the LIMIT of the SQL is the smaller of the requested
\* limit and the tool's maximum, and a requested limit below 1 (0 and the
\* negative numbers) is raised to 1.
C11_RequestedLimitClamped ==
    /\ input.op \in LimitedOps
    /\ "limit" \in DOMAIN input.args
    /\ DataStatementSent
    => StatementLimit(DataStatement.sql)
          = {IF input.args.limit < 1 THEN 1
             ELSE IF input.args.limit > ToolMaximum[input.op]
             THEN ToolMaximum[input.op]
             ELSE input.args.limit}

---------------------------------------------------------------------------
(* filter_by_column with a LIKE filter and a limit above the maximum.      *)

Q_FilterScenarioClaimed ==
    <<"S", "E", "L", "E", "C", "T", " ", "*", " ", "F", "R", "O", "M", " ", "\"", "o", "r",
    "d", "e", "r", "s", "\"", " ", "W", "H", "E", "R", "E", " ", "\"", "r", "e", "g", "i", "o",
    "n", "\"", " ", "L", "I", "K", "E", " ", "?", " ", "L", "I", "M", "I", "T", " ", "5", "0",
    "1">>
Q_FilterScenarioSent ==
    <<"S", "E", "L", "E", "C", "T", " ", "*", " ", "F", "R", "O", "M", " ", "\"", "o", "r",
    "d", "e", "r", "s", "\"", " ", "W", "H", "E", "R", "E", " ", "\"", "r", "e", "g", "i", "o",
    "n", "\"", " ", "L", "I", "K", "E", " ", "?", " ", "L", "I", "M", "I", "T", " ", "5", "0",
    "0">>
\* The call of the scenario has sent its statement.
FilterScenarioSent ==
    /\ input.op = "filter_by_column"
    /\ input.args.table = N_orders
    /\ input.args.filters = <<[column |-> N_region, value |-> String(V_NorthPattern)]>>
    /\ "limit" \in DOMAIN input.args
    /\ input.args.limit = 1000
    /\ Len(sent) = 1

\* C12: filter_by_column on table orders with filters {"region": "%North%"}
\* and limit 1000 sends SELECT * FROM "orders" WHERE "region" LIKE ? LIMIT 501
\* to the backend, with the single parameter %North%.
C12_FilterScenarioFetchesOneMore ==
    FilterScenarioSent
    => /\ sent[1].sql = Q_FilterScenarioClaimed
       /\ sent[1].params = <<String(V_NorthPattern)>>

\* C12 amended: the scenario's limit is clamped to 500 and the statement sent
\* is SELECT * FROM "orders" WHERE "region" LIKE ? LIMIT 500, with the
\* single parameter %North%: the statement has a LIMIT clause of its own, so
\* no LIMIT of one more row is appended.
C12_FilterScenarioSendsToolMaximum ==
    FilterScenarioSent
    => /\ sent[1].sql = Q_FilterScenarioSent
       /\ sent[1].params = <<String(V_NorthPattern)>>

\* The scenario against the holly database, answered by the backend.
C12_Witness ==
    /\ FilterScenarioSent
    /\ input.args.database = S_holly
    /\ backend.outcome = "resolve"
    /\ ret.kind = "return"
    /\ ret.value.success

---------------------------------------------------------------------------
(* The WHERE clause of a filter, stated apart from the code.               *)

W_Where ==
    <<"W", "H", "E", "R", "E", " ">>
W_And ==
    <<" ", "A", "N", "D", " ">>
W_IsNull ==
    <<" ", "I", "S", " ", "N", "U", "L", "L">>
W_Like ==
    <<" ", "L", "I", "K", "E", " ", "?">>
W_Equals ==
    <<" ", "=", " ", "?">>

ValidKey(entry) ==
    /\ entry.column # <<>>
    /\ entry.column[1] \notin DigitChars
    /\ \A i \in DOMAIN entry.column : entry.column[i] \in WordChars

IsPattern(value) ==
    value.kind = "string" /\ \E i \in DOMAIN value.text : value.text[i] = "%"

ConditionOf(entry) ==
    <<"\"">> \o entry.column \o <<"\"">>
        \o (IF entry.value = Null THEN W_IsNull
            ELSE IF IsPattern(entry.value) THEN W_Like ELSE W_Equals)

\* The conditions of the first n entries, each after the first behind AND.
RECURSIVE ConditionsJoined(_, _)
ConditionsJoined(entries, n) ==
    IF n = 0 THEN <<>>
    ELSE IF n = 1 THEN ConditionOf(entries[1])
    ELSE ConditionsJoined(entries, n - 1) \o W_And \o ConditionOf(entries[n])

\* C13: buildWhereClause drops the entries whose key is no identifier; of
\* the others it writes "col" IS NULL without parameter for null, "col"
\* LIKE ? for a string holding %, "col" = ? otherwise, the value being the
\* parameter; it joins the conditions with AND in entry order behind one
\* WHERE; and it returns the empty clause without parameters when no entry
\* is left, as for the empty filter.
C13_WhereClauseBuilt ==
    input.op = "buildWhereClause" /\ ret.kind = "return" =>
        LET kept == SelectSeq(input.filters, ValidKey)
            bound == SelectSeq(kept, LAMBDA entry : entry.value # Null)
        IN  /\ ret.value.clause
                  = IF kept = <<>> THEN <<>>
                    ELSE W_Where \o ConditionsJoined(kept, Len(kept))
            /\ ret.value.params = [i \in DOMAIN bound |-> bound[i].value]

\* A filter of three entries, a kept one with a pattern, a dropped one and
\* a kept one with null, has been built into a clause with one parameter.
C13_Witness ==
    /\ input.op = "buildWhereClause"
    /\ ret.kind = "return"
    /\ Len(input.filters) = 3
    /\ ValidKey(input.filters[1]) /\ IsPattern(input.filters[1].value)
    /\ ~ValidKey(input.filters[2])
    /\ ValidKey(input.filters[3]) /\ input.filters[3].value = Null
    /\ ret.value.clause # <<>>
    /\ Len(ret.value.params) = 1

---------------------------------------------------------------------------
(* query_by_date_range.                                                    *)

W_FromInclusive ==
    <<"\"", " ", ">", "=", " ", "?", " ", "A", "N", "D", " ", "\"">>
W_ToInclusive ==
    <<"\"", " ", "<", "=", " ", "?">>
W_OrderBy ==
    <<"O", "R", "D", "E", "R", " ", "B", "Y", " ", "\"">>
W_Descending ==
    <<"\"", " ", "D", "E", "S", "C">>

SatisfiesIdentifierRule(name) ==
    /\ name # <<>>
    /\ name[1] \notin DigitChars
    /\ \A i \in DOMAIN name : name[i] \in WordChars

\* Four digits, a hyphen, two digits, a hyphen, two digits.
MatchesDateShape(date) ==
    /\ Len(date) = 10
    /\ \A i \in 1..10 : IF i \in {5, 8} THEN date[i] = "-" ELSE date[i] \in DigitChars

DateRangeArgumentsPass ==
    /\ SatisfiesIdentifierRule(input.args.table)
    /\ SatisfiesIdentifierRule(input.args.date_column)
    /\ MatchesDateShape(input.args.start_date)
    /\ MatchesDateShape(input.args.end_date)

\* C14: query_by_date_range reaches the backend only when table and date
\* column satisfy the identifier rule and both dates have the shape
\* dddd-dd-dd, and is otherwise rejected without a backend call; 2024-13-01
\* passes and is executed, 2024-1-1 is rejected; the statement executed
\* filters "col" >= ? AND "col" <= ? with the parameters [start_date,
\* end_date] and orders by the date column descending.
C14_DateRangeChecked ==
    input.op = "query_by_date_range" =>
        /\ sent # <<>> => DateRangeArgumentsPass
        /\ ~DateRangeArgumentsPass /\ Completed =>
              ret.kind = "throw" /\ ops = <<>> /\ sent = <<>>
        /\ input.args.start_date = D_ShortDigits /\ Completed => ret.kind = "throw"
        /\ /\ input.args.start_date = D_Month13
           /\ DateRangeArgumentsPass
           /\ input.args.database = S_holly
           /\ input.args.table = N_orders
           /\ ret # Pending
           => Len(sent) = 1
        /\ sent # <<>> =>
              /\ includes(sent[1].sql,
                          <<"\"">> \o input.args.date_column \o W_FromInclusive
                              \o input.args.date_column \o W_ToInclusive)
              /\ includes(sent[1].sql,
                          W_OrderBy \o input.args.date_column \o W_Descending)
              /\ sent[1].params = <<input.args.start_date, input.args.end_date>>

\* A date range from 2024-13-01 has been executed by the backend.
C14_Witness ==
    /\ input.op = "query_by_date_range"
    /\ input.args.start_date = D_Month13
    /\ Len(sent) = 1
    /\ backend.outcome = "resolve"
    /\ ret.kind = "return"
    /\ ret.value.success

---------------------------------------------------------------------------
(* search_records.                                                         *)

W_LikeNoCase ==
    <<"\"", " ", "L", "I", "K", "E", " ", "?", " ", "C", "O", "L", "L", "A", "T", "E", " ",
    "N", "O", "C", "A", "S", "E">>
W_Or ==
    <<" ", "O", "R", " ">>
W_LimitBehind ==
    <<" ", "L", "I", "M", "I", "T", " ">>
W_PragmaTableInfo ==
    <<"P", "R", "A", "G", "M", "A", " ", "t", "a", "b", "l", "e", "_", "i", "n", "f", "o", "(">>

\* The declared type holds TEXT, VARCHAR or CHAR, in any case.
DeclaredAsText(col) ==
    \/ ContainsIgnoringCase(col.type, S_TEXT)
    \/ ContainsIgnoringCase(col.type, S_VARCHAR)
    \/ ContainsIgnoringCase(col.type, S_CHAR)

\* One LIKE condition for each of the first n columns, behind OR from the
\* second on.
RECURSIVE LikeConditions(_, _)
LikeConditions(columns, n) ==
    IF n = 0 THEN <<>>
    ELSE (IF n = 1 THEN <<>> ELSE LikeConditions(columns, n - 1) \o W_Or)
             \o <<"\"">> \o columns[n].name \o W_LikeNoCase

\* The backend answers the metadata statement of a search with the columns
\* of the table.
ColumnsFetched ==
    /\ input.op = "search_records"
    /\ Len(sent) = 1
    /\ ret = Awaiting
    /\ backend'.outcome = "resolve"

\* What C15 says of the step that follows the columns.
SearchFollowsColumns ==
    LET textColumns == SelectSeq(backend'.rows, DeclaredAsText)
    IN  IF textColumns = <<>>
        THEN ret'.kind = "return" /\ ~ret'.value.success /\ sent' = sent
        ELSE /\ Len(sent') = 2
             /\ includes(sent'[2].sql,
                         W_Where \o LikeConditions(textColumns, Len(textColumns))
                             \o W_LimitBehind)
             /\ sent'[2].params
                   = [i \in DOMAIN textColumns |->
                         <<"%">> \o input.args.search_term \o <<"%">>]

\* C15: search_records first fetches the columns of the table; when no
\* column's declared type holds TEXT, VARCHAR or CHAR it returns a failure
\* without a data query; otherwise it executes one query with exactly one
\* case-insensitive LIKE condition for each text column, joined with OR in
\* the order of the schema, and one %term% parameter for each such column.
C15_SearchCoversTextColumns ==
    [][/\ input.op = "search_records" /\ sent # <<>> =>
              startsWith(sent[1].sql, W_PragmaTableInfo)
       /\ ColumnsFetched => SearchFollowsColumns]_vars

---------------------------------------------------------------------------
(* get_summary_stats.                                                      *)

W_CountAll ==
    <<"C", "O", "U", "N", "T", "(", "*", ")">>
W_SumOf ==
    <<"S", "U", "M", "(", "\"">>
W_AvgOf ==
    <<"A", "V", "G", "(", "\"">>
W_MinOf ==
    <<"M", "I", "N", "(", "\"">>
W_MaxOf ==
    <<"M", "A", "X", "(", "\"">>
W_GroupBy ==
    <<"G", "R", "O", "U", "P", " ", "B", "Y", " ", "\"">>
W_OrderByCountDesc ==
    <<"O", "R", "D", "E", "R", " ", "B", "Y", " ", "c", "o", "u", "n", "t", " ", "D", "E", "S",
    "C">>

\* An optional argument is given: present and not empty.
Given(argument) ==
    argument # Undefined /\ argument # <<>>

\* The statement computes sum, average, minimum and maximum of the column.
AggregatesOf(sql, column) ==
    \A aggregate \in {W_SumOf, W_AvgOf, W_MinOf, W_MaxOf} :
        includes(sql, aggregate \o column \o <<"\"", ")">>)

NoAggregateOfColumn(sql) ==
    \A aggregate \in {W_SumOf, W_AvgOf, W_MinOf, W_MaxOf} : ~includes(sql, aggregate)

\* C16: get_summary_stats asks for the row count alone when no column is
\* given; for count, sum, average, minimum and maximum over the whole table
\* when a column and no group-by is given; and, when both are given, for the
\* five aggregates of each group ordered by count descending, of which at
\* most 50 groups are returned, whatever MAX_RESULT_ROWS is.
C16_SummaryShapes ==
    input.op = "get_summary_stats" /\ sent # <<>> =>
        LET sql == sent[1].sql
            column == input.args.column
            groupBy == input.args.group_by
        IN  /\ includes(sql, W_CountAll)
            /\ ~Given(column) =>
                  NoAggregateOfColumn(sql) /\ ~includes(sql, W_GroupBy)
            /\ Given(column) /\ ~Given(groupBy) =>
                  AggregatesOf(sql, column) /\ ~includes(sql, W_GroupBy)
            /\ Given(column) /\ Given(groupBy) =>
                  /\ AggregatesOf(sql, column)
                  /\ includes(sql, W_GroupBy \o groupBy \o <<"\"">>)
                  /\ includes(sql, W_OrderByCountDesc)
                  /\ ret.kind = "return" /\ ret.value.success =>
                        /\ ret.value.rowCount <= SummaryGroupLimit
                        /\ Len(ret.value.data) <= SummaryGroupLimit

\* A grouped summary of a table of more than 50 groups has returned 50,
\* MAX_RESULT_ROWS being unset.
C16_Witness ==
    /\ input.op = "get_summary_stats"
    /\ Given(input.args.column)
    /\ Given(input.args.group_by)
    /\ env.MAX_RESULT_ROWS = Undefined
    /\ Len(backend.rows) > SummaryGroupLimit
    /\ ret.kind = "return"
    /\ ret.value.success
    /\ ret.value.rowCount = SummaryGroupLimit

---------------------------------------------------------------------------
(* Identifiers in the SQL of the tools.                                    *)

\* The names between double quotes in a statement: a name lies between
\* two neighbouring quotes of which the first has an even number of quotes
\* before it.
QuotedNames(sql) ==
    LET quotes == {i \in DOMAIN sql : sql[i] = "\""}
        pairs == {p \in quotes \X quotes :
                    /\ p[1] < p[2]
                    /\ ~\E q \in quotes : p[1] < q /\ q < p[2]
                    /\ Cardinality({q \in quotes : q < p[1]}) % 2 = 0}
    IN  {SubSeq(sql, p[1] + 1, p[2] - 1) : p \in pairs}

\* The tools that build SQL around names given by the caller.
NamingOps ==
    {"describe_table", "get_recent_records", "filter_by_column", "search_records",
     "get_summary_stats", "query_by_date_range"}

\* A name the operation requires fails the identifier rule.
RequiredNameFails ==
    \/ ~SatisfiesIdentifierRule(input.args.table)
    \/ /\ input.op = "get_summary_stats"
       /\ Given(input.args.column)
       /\ \/ ~SatisfiesIdentifierRule(input.args.column)
          \/ Given(input.args.group_by)
             /\ ~SatisfiesIdentifierRule(input.args.group_by)
    \/ /\ input.op = "query_by_date_range"
       /\ ~SatisfiesIdentifierRule(input.args.date_column)

\* C17: in every tool handler a table, column or group-by name of the
\* caller is put into SQL only after it has matched the identifier rule: a
\* required name that fails the rule ends the call with an error before any
\* backend call, and no name between quotes in a statement sent to the
\* backend fails the rule (a filter key that fails it is left out).
C17_OnlyIdentifiersReachSql ==
    input.op \in NamingOps =>
        /\ RequiredNameFails /\ ret # Pending =>
              ret.kind = "throw" /\ ret.error.isError /\ ops = <<>> /\ sent = <<>>
        /\ \A k \in DOMAIN sent :
              \A name \in QuotedNames(sent[k].sql) :
                  SatisfiesIdentifierRule(name)
        /\ input.op = "filter_by_column" /\ sent # <<>> =>
              \A k \in DOMAIN input.args.filters :
                  LET key == input.args.filters[k].column
                  IN  ~SatisfiesIdentifierRule(key) =>
                          key \notin QuotedNames(sent[1].sql)

\* A summary with a valid table and column and an invalid group-by name has
\* ended with the group-by error, nothing having been sent.
C17_Witness ==
    /\ input.op = "get_summary_stats"
    /\ SatisfiesIdentifierRule(input.args.table)
    /\ Given(input.args.column)
    /\ SatisfiesIdentifierRule(input.args.column)
    /\ input.args.group_by = N_1bad
    /\ ret.kind = "throw"
    /\ ret.error.message = S_InvalidGroupBy
    /\ sent = <<>>

---------------------------------------------------------------------------
(* Failure results.                                                        *)

\* The tools that hand a query result to the dispatch layer.
QueryResultOps ==
    {"execute_query", "get_recent_records", "filter_by_column", "search_records",
     "get_summary_stats", "query_by_date_range"}

DisplayNames ==
    {S_HollyDisplay, S_RockfordDisplay, S_HistoricalDisplay}

\* C18: every failure result handed to the dispatch layer, from a rejection
\* by the validator, a backend error, an unknown database name or a search
\* of a table without text columns, has the fields success = false, error (a
\* string) and database, the display name of the database queried.
C18_FailureNamesDatabase ==
    /\ input.op \in QueryResultOps
    /\ ret.kind = "return"
    /\ ~ret.value.success
    =>  /\ "error" \in DOMAIN ret.value
        /\ ret.value.error # Undefined
        /\ "database" \in DOMAIN ret.value
        /\ ret.value.database \in DisplayNames

---------------------------------------------------------------------------
(* Errors of the backend.                                                  *)

\* The backend rejects the statement a tool awaits, with an Error.
BackendFails ==
    /\ input.op \in NamingOps
    /\ ret.kind = "awaiting"
    /\ backend'.outcome = "rejectError"

\* C19: when the backend fails a statement of describe_table,
\* search_records, filter_by_column, get_summary_stats, query_by_date_range
\* or get_recent_records (as for a table or column that does not exist), the
\* outcome is a failure result with the backend's error message, never an
\* empty column list, a row count of 0 or a 'no text columns' message.
C19_BackendErrorSurfaces ==
    [][BackendFails =>
          /\ ret'.kind = "return"
          /\ "success" \in DOMAIN ret'.value
          /\ ~ret'.value.success
          /\ ret'.value.error = S_D1Error]_vars

---------------------------------------------------------------------------
(* Round trips to the backend.                                             *)

\* The tools of handleToolCall that query a database.
BackendOpsTools ==
    {"list_tables", "describe_table", "get_recent_records", "filter_by_column",
     "search_records", "get_summary_stats", "query_by_date_range", "execute_query"}

\* The round trips of a completed call: the statements it has run.
RoundTrips ==
    Cardinality({i \in DOMAIN ops : ops[i] = "all"})

ReachedBackend ==
    input.op \in BackendOpsTools /\ Completed /\ RoundTrips > 0

\* C20 as stated: every tool invocation that reaches the backend makes
\* exactly one round trip, and search_records exactly two.
C20_OneRoundTripSearchTwo ==
    ReachedBackend =>
        RoundTrips = IF input.op = "search_records" THEN 2 ELSE 1

\* C20 amended: a tool invocation that reaches the backend makes exactly one
\* round trip for list_tables, get_recent_records, filter_by_column,
\* get_summary_stats, query_by_date_range and execute_query; exactly two for
\* describe_table (the columns, then the row count); and for search_records
\* the fetch of the columns followed by one data fetch, the data fetch being
\* left out exactly when the call ends with the 'no text columns' failure or
\* with the validator's rejection of the data statement (a text column that
\* bears the name of a forbidden keyword).
C20_RoundTripsPerTool ==
    ReachedBackend =>
        /\ RoundTrips = Len(sent)
        /\ input.op \notin {"describe_table", "search_records"} => RoundTrips = 1
        /\ input.op = "describe_table" =>
              /\ RoundTrips = 2
              /\ startsWith(sent[1].sql, W_PragmaTableInfo)
              /\ includes(sent[2].sql, W_CountAll)
        /\ input.op = "search_records" =>
              /\ RoundTrips \in {1, 2}
              /\ startsWith(sent[1].sql, W_PragmaTableInfo)
              /\ RoundTrips = 1 <=>
                    /\ ~ret.value.success
                    /\ \/ ret.value.error = S_NoTextColumns
                       \/ startsWith(ret.value.error, S_ForbiddenPrefix)

\* describe_table has completed after two statements answered by the backend.
C20_Witness ==
    /\ input.op = "describe_table"
    /\ ret.kind = "return"
    /\ Len(sent) = 2
    /\ Len(fetched) = 2
    /\ ret.value.columnCount > 0

---------------------------------------------------------------------------
(* The statements of a SQL text.                                           *)

\* The semicolons of the text that stand outside a '...' literal.
Separators(sql) ==
    {i \in 1..Len(sql) :
        /\ sql[i] = ";"
        /\ Cardinality({j \in 1..(i - 1) : sql[j] = "'"}) % 2 = 0}

\* The positions at which a statement of the text begins: the first
\* character that is no white space, at the start of the text and behind
\* each separating semicolon.
StatementStarts(sql) ==
    {i \in 1..Len(sql) :
        /\ sql[i] \notin WhiteSpace
        /\ i \notin Separators(sql)
        /\ LET before == LastOutside(sql, WhiteSpace, i - 1)
           IN  before = 0 \/ before \in Separators(sql)}

CountOf(sequence, element) ==
    Cardinality({i \in 1..Len(sequence) : sequence[i] = element})

\* Each of prepare, bind and all was invoked n times.
BackendInvocations(n) ==
    \A k \in 1..Len(BackendOps) : CountOf(ops, BackendOps[k]) = n

\* C21: each executeQuery call submits at most one statement to the
\* backend: exactly one prepare/bind/all invocation with a single SQL text
\* when the validator accepts and the database resolves, and none
\* otherwise; the text submitted never holds a read followed by a second
\* statement.
C21_AtMostOneStatement ==
    Called =>
        /\ Len(sent) <= 1
        /\ IF /\ ~validateReadOnlyQuery(input.query).threw
              /\ ~getDatabase(env, input.database).threw
           THEN Len(sent) = 1 /\ BackendInvocations(1)
           ELSE sent = <<>> /\ BackendInvocations(0)
        /\ \A k \in 1..Len(sent) :
              Cardinality(StatementStarts(sent[k].sql)) <= 1

---------------------------------------------------------------------------
(* executeQuery called again and again with the same arguments, the same   *)
(* Env and an unchanged backend: ret.done holds the completions of the     *)
(* calls that have ended, sent and fetched grow with every call.           *)

MaxExecutions ==
    2

RepeatedQueries ==
    {stmt \o lim : stmt \in Statements, lim \in OwnLimits}

InitRepeated ==
    /\ \E q \in RepeatedQueries, d \in {S_holly, S_other}, p \in ParamLists :
          input = [op |-> "executeQuery", database |-> d, query |-> q, params |-> p]
    /\ env \in Envs
    /\ backend \in Backends
    /\ ret = [kind |-> "pending", done |-> <<>>]
    /\ ops = <<>>
    /\ sent = <<>>
    /\ fetched = <<>>
    /\ dictionary = DATA_DICTIONARY

\* One more call, up to its completion by the catch block or to its await.
ExecuteQueryAgain ==
    /\ ret.kind = "pending"
    /\ Len(ret.done) < MaxExecutions
    /\ LET r == executeQuery(env, input.database, input.query, input.params)
       IN  /\ ops' = ops \o r.ops
           /\ IF r.awaits
              THEN /\ ret' = [ret EXCEPT !.kind = "awaiting"]
                   /\ sent' = Append(sent, r.statement)
              ELSE /\ ret' = [ret EXCEPT !.done = Append(@, Completion(r.completion))]
                   /\ sent' = sent
    /\ UNCHANGED <<input, env, backend, fetched, dictionary>>

\* The backend settles the statement of the call and the call runs to its end.
ExecuteQueryAgainSettled ==
    /\ ret.kind = "awaiting"
    /\ LET statement == sent[Len(sent)]
           settled == D1PrepareBindAll(backend, statement.sql, statement.params)
       IN  /\ fetched' = IF settled.threw THEN fetched
                         ELSE Append(fetched, Len(settled.value.results))
           /\ ret' = [kind |-> "pending",
                      done |-> Append(ret.done,
                                      Completion(executeQuerySettled(
                                          env, input.database, settled)))]
    /\ UNCHANGED <<input, env, backend, ops, sent, dictionary>>

NextRepeated ==
    \/ ExecuteQueryAgain
    \/ ExecuteQueryAgainSettled

SpecRepeated ==
    InitRepeated /\ [][NextRepeated]_vars

---------------------------------------------------------------------------
(* Tool calls handled concurrently.  The calls of input are in flight      *)
(* together, against one Env and one unchanged store; ret, ops, sent and   *)
(* fetched hold, per call, what the call alone holds in its own frame.     *)
(* The runtime resumes one suspended call at a time, in any order.         *)

MaxConcurrent ==
    2

ConcurrentCalls ==
    { [op |-> "list_tables", args |-> [database |-> S_holly]],
      [op |-> "describe_table", args |-> [database |-> S_holly, table |-> N_orders]],
      [op |-> "search_records",
       args |-> [database |-> S_holly, table |-> N_orders, search_term |-> V_Smith]],
      [op |-> "get_recent_records",
       args |-> [database |-> S_holly, table |-> N_orders, limit |-> 2]],
      [op |-> "filter_by_column",
       args |-> [database |-> S_other, table |-> N_orders, filters |-> <<>>]],
      [op |-> "get_summary_stats",
       args |-> [database |-> S_holly, table |-> N_1bad,
                 column |-> Undefined, group_by |-> Undefined]] }

\* The store behind the backend: what it holds does not change.
Stores ==
    { [outcome |-> "resolve",
       columns |-> <<[name |-> N_name, type |-> Y_text],
                     [name |-> N_amount, type |-> Y_INTEGER],
                     [name |-> N_region, type |-> Y_varchar20]>>,
       tables |-> <<[name |-> N_orders, type |-> Y_table],
                    [name |-> N_recent_orders, type |-> Y_view]>>,
       rows |-> Rows(MaxToolMatching)],
      [outcome |-> "resolve",
       columns |-> <<[name |-> N_id, type |-> Y_INTEGER]>>,
       tables |-> <<[name |-> N_orders, type |-> Y_table]>>,
       rows |-> <<>>],
      [outcome |-> "rejectError", columns |-> <<>>, tables |-> <<>>, rows |-> <<>>] }

\* How the store answers a statement.
StoreAnswer(store, sql) ==
    [outcome |-> store.outcome,
     rows |-> IF startsWith(toUpperCase(trim(sql)), S_PRAGMA) THEN store.columns
              ELSE IF includes(sql, S_sqlite_master) THEN store.tables
              ELSE IF startsWith(sql, T_RowCount[1]) THEN <<[count |-> Len(store.rows)]>>
              ELSE IF includes(sql, S_CountStar) /\ ~includes(sql, S_GroupBy) THEN Rows(1)
              ELSE store.rows]

\* handleToolCall(call), up to the completion of the handler or to its
\* first await.
StartCall(call, e) ==
    LET step == handleToolCall(call.op, call.args, e)
        columns == getTableColumnsEnded(step.completion).value
        rest == CASE call.op = "search_records" ->
                       handleSearchRecordsColumns(
                           call.args.database, call.args.table, call.args.search_term,
                           LimitOr(call.args, 50), e, columns)
                  [] call.op = "describe_table" ->
                       handleDescribeTableColumns(
                           call.args.database, call.args.table, e, columns)
                  [] call.op = "list_tables" ->
                       handleListTablesTables(call.args.database, <<>>)
                  [] OTHER -> step
    IN  IF step.awaits \/ step.completion.threw THEN step
        ELSE [rest EXCEPT !.ops = step.ops \o rest.ops]

\* The call from an await on, settled being how its statement ended: sends
\* is the number of statements the call has sent, locals what its frame
\* holds.
ResumeCall(call, e, sends, locals, settled) ==
    LET dbName == call.args.database
    IN  CASE call.op = "search_records" /\ sends = 1 ->
               handleSearchRecordsColumns(
                   dbName, call.args.table, call.args.search_term,
                   LimitOr(call.args, 50), e,
                   getTableColumnsSettled(e, dbName, settled))
          [] call.op = "list_tables" ->
               handleListTablesTables(dbName, getTablesSettled(e, dbName, settled))
          [] call.op = "describe_table" /\ sends = 1 ->
               handleDescribeTableColumns(
                   dbName, call.args.table, e,
                   getTableColumnsSettled(e, dbName, settled))
          [] call.op = "describe_table" /\ sends = 2 ->
               handleDescribeTableRowCount(
                   dbName, call.args.table, locals.columns,
                   getTableRowCountSettled(e, dbName, settled))
          [] OTHER ->
               [awaits |-> FALSE, ops |-> <<>>,
                completion |-> executeQuerySettled(e, dbName, settled)]

\* Sequences of n calls.
RECURSIVE CallLists(_)
CallLists(n) ==
    IF n = 0 THEN {<<>>}
    ELSE {Append(calls, call) : calls \in CallLists(n - 1), call \in ConcurrentCalls}

InitConcurrent ==
    /\ input \in CallLists(MaxConcurrent)
    /\ env \in ToolEnvs
    /\ backend \in Stores
    /\ ret = [i \in DOMAIN input |-> Pending]
    /\ ops = [i \in DOMAIN input |-> <<>>]
    /\ sent = [i \in DOMAIN input |-> <<>>]
    /\ fetched = [i \in DOMAIN input |-> <<>>]
    /\ dictionary = DATA_DICTIONARY

\* What a step leaves in the frame of call i.
SteppedCall(i, step) ==
    /\ ops' = [ops EXCEPT ![i] = @ \o step.ops]
    /\ IF step.awaits
       THEN /\ sent' = [sent EXCEPT ![i] = Append(@, step.statement)]
            /\ ret' = [ret EXCEPT ![i] =
                          IF "locals" \in DOMAIN step
                          THEN [kind |-> "awaiting", locals |-> step.locals]
                          ELSE Awaiting]
       ELSE /\ ret' = [ret EXCEPT ![i] = Completion(step.completion)]
            /\ sent' = sent

\* Call i begins.
BeginCall(i) ==
    /\ ret[i] = Pending
    /\ SteppedCall(i, StartCall(input[i], env))
    /\ UNCHANGED <<input, env, backend, fetched, dictionary>>

\* The statement in flight kept in one slot for all calls that fetch rows of
\* a table: such a call is settled with the statement of the first of them
\* that is suspended.
SettleCall_SharedSlot(i) ==
    /\ ret[i].kind = "awaiting"
    /\ LET FetchesRows(k) ==
               /\ ret[k].kind = "awaiting"
               /\ startsWith(sent[k][Len(sent[k])].sql, <<"S", "E", "L", "E", "C", "T", " ", "*">>)
           first == IF FetchesRows(i)
                    THEN CHOOSE k \in DOMAIN input :
                             /\ FetchesRows(k)
                             /\ \A j \in 1..(k - 1) : ~FetchesRows(j)
                    ELSE i
           statement == sent[first][Len(sent[first])]
           settled == D1PrepareBindAll(StoreAnswer(backend, statement.sql),
                                       statement.sql, statement.params)
       IN  /\ fetched' = [fetched EXCEPT ![i] =
                             IF settled.threw THEN @
                             ELSE Append(@, Len(settled.value.results))]
           /\ SteppedCall(i, ResumeCall(input[i], env, Len(sent[i]),
                                        IF "locals" \in DOMAIN ret[i]
                                        THEN ret[i].locals ELSE <<>>,
                                        settled))
    /\ UNCHANGED <<input, env, backend, dictionary>>

\* The backend settles the statement call i awaits and the call runs on.
SettleCall(i) ==
    /\ ret[i].kind = "awaiting"
    /\ LET statement == sent[i][Len(sent[i])]
           settled == D1PrepareBindAll(StoreAnswer(backend, statement.sql),
                                       statement.sql, statement.params)
       IN  /\ fetched' = [fetched EXCEPT ![i] =
                             IF settled.threw THEN @
                             ELSE Append(@, Len(settled.value.results))]
           /\ SteppedCall(i, ResumeCall(input[i], env, Len(sent[i]),
                                        IF "locals" \in DOMAIN ret[i]
                                        THEN ret[i].locals ELSE <<>>,
                                        settled))
    /\ UNCHANGED <<input, env, backend, dictionary>>

BeginSomeCall ==
    \E i \in DOMAIN input : BeginCall(i)

SettleSomeCall ==
    \E i \in DOMAIN input : SettleCall(i)

NextConcurrent ==
    \/ BeginSomeCall
    \/ SettleSomeCall

SpecConcurrent ==
    InitConcurrent /\ [][NextConcurrent]_vars

---------------------------------------------------------------------------
(* A call run alone, from its start to its end, against the store.         *)

SettledBy(store, statement) ==
    D1PrepareBindAll(StoreAnswer(store, statement.sql), statement.sql, statement.params)

LocalsOf(step) ==
    IF "locals" \in DOMAIN step THEN step.locals ELSE <<>>

RunAlone(call, e, store) ==
    LET first == StartCall(call, e)
    IN  IF ~first.awaits THEN Completion(first.completion)
        ELSE LET second == ResumeCall(call, e, 1, LocalsOf(first),
                                      SettledBy(store, first.statement))
             IN  IF ~second.awaits THEN Completion(second.completion)
                 ELSE Completion(
                          ResumeCall(call, e, 2, LocalsOf(second),
                                     SettledBy(store, second.statement)).completion)

---------------------------------------------------------------------------
(* The start of a query string, stated apart from the code.                *)

W_NotReadOnly ==
    <<"n", "o", "t", " ", "a", " ", "r", "e", "a", "d", "-", "o", "n", "l", "y", " ", "s", "t",
    "a", "t", "e", "m", "e", "n", "t">>
W_OnlySelect ==
    <<"O", "n", "l", "y", " ", "S", "E", "L", "E", "C", "T", " ", "q", "u", "e", "r", "i", "e",
    "s", " ", "a", "r", "e", " ", "a", "l", "l", "o", "w", "e", "d">>

\* The text without the white space in front of it.
WithoutLeadingSpace(q) ==
    LET blanks == {n \in 0..Len(q) : \A i \in 1..n : q[i] \in WhiteSpace}
        n == CHOOSE m \in blanks : \A k \in blanks : k <= m
    IN  SubSeq(q, n + 1, Len(q))

\* The first whole word of the text: its longest run of letters, digits and
\* underscores behind the leading white space.
LeadingToken(q) ==
    LET t == WithoutLeadingSpace(q)
        runs == {n \in 0..Len(t) : \A i \in 1..n : IsWordChar(t[i])}
        n == CHOOSE m \in runs : \A k \in runs : k <= m
    IN  SubSeq(t, 1, n)

SameWordIgnoringCase(a, b) ==
    /\ Len(a) = Len(b)
    /\ \A i \in 1..Len(a) : SameLetterIgnoringCase(a[i], b[i])

AllowedWords ==
    {S_SELECT, S_WITH, S_PRAGMA}

\* The text, behind its leading white space, begins with the letters of word.
BeginsWithLetters(q, word) ==
    LET t == WithoutLeadingSpace(q)
    IN  /\ Len(t) >= Len(word)
        /\ SameWordIgnoringCase(SubSeq(t, 1, Len(word)), word)

\* C24 as stated: the validator accepts a statement only when its leading
\* token, the first whole word of the trimmed text, is exactly SELECT, WITH
\* or PRAGMA; a statement whose leading token is any other word, a longer
\* word that begins with those letters included, is rejected with the
\* reason "not a read-only statement".
C24_LeadingTokenExact ==
    Validated =>
        LET exact == \E word \in AllowedWords :
                         SameWordIgnoringCase(LeadingToken(input.query), word)
        IN  /\ ret.kind = "return" => exact
            /\ ~exact => ret.kind = "throw" /\ ret.error.message = W_NotReadOnly

\* C24 amended: the validator accepts a statement only when its trimmed
\* text begins with the letters SELECT, WITH or PRAGMA in any letter case; a
\* statement that begins otherwise is rejected with the message "Only
\* SELECT queries are allowed"; the letters need not be a whole word, so a
\* longer leading word that begins with them is accepted when the text
\* holds no forbidden keyword.
C24_LeadingLettersAllowed ==
    Validated =>
        LET begins == \E word \in AllowedWords : BeginsWithLetters(input.query, word)
        IN  /\ ret.kind = "return" => begins
            /\ ~begins => ret.kind = "throw" /\ ret.error.message = W_OnlySelect
            /\ begins /\ ~HasForbiddenWord(input.query) => ret.kind = "return"

\* SELECT_with, one word longer than SELECT, has been accepted.
C24_Witness ==
    /\ Validated
    /\ input.query = F_SELECT \o <<"_">> \o F_with
    /\ LeadingToken(input.query) = input.query
    /\ ret.kind = "return"

---------------------------------------------------------------------------
\* C25: validateReadOnlyQuery accepts a query if and only if its trimmed
\* text starts, in any letter case, with SELECT, WITH or PRAGMA and none of
\* the ten forbidden keywords occurs in it as a whole word; a keyword that
\* stands next to a letter, a digit or an underscore, as in dropout_rate,
\* created, drop_table and updated_at, never causes a rejection.
C25_AcceptedIffPrefixAndNoWholeWord ==
    Validated =>
        (ret.kind = "return"
            <=> /\ \E word \in AllowedWords : BeginsWithLetters(input.query, word)
                /\ ~HasForbiddenWord(input.query))

\* select created, updated_at from drop_table holds CREATE, UPDATE and DROP
\* inside longer words only, and has been accepted.
C25_Witness ==
    /\ Validated
    /\ input.query = Q_SelectCreated
    /\ ContainsIgnoringCase(input.query, S_CREATE)
    /\ ContainsIgnoringCase(input.query, S_UPDATE)
    /\ ContainsIgnoringCase(input.query, S_DROP)
    /\ ret.kind = "return"

---------------------------------------------------------------------------
W_ForbiddenKeyword ==
    <<"Q", "u", "e", "r", "y", " ", "c", "o", "n", "t", "a", "i", "n", "s", " ", "f", "o", "r",
    "b", "i", "d", "d", "e", "n", " ", "k", "e", "y", "w", "o", "r", "d", ":", " ">>

\* C26: when the validator rejects for a forbidden keyword, the error names
\* a keyword that occurs in the query as a whole word, and it is the first
\* match found, the keywords being tried in the order of the list; the
\* prefix check runs before the keyword scan, so a query that fails both
\* checks is reported with the prefix rejection and not with the keyword.
C26_RejectionNamesFirstMatch ==
    Validated /\ ret.kind = "throw" =>
        IF \E word \in AllowedWords : BeginsWithLetters(input.query, word)
        THEN \E k \in 1..Len(forbiddenKeywords) :
                /\ ret.error.message = W_ForbiddenKeyword \o forbiddenKeywords[k]
                /\ OccursAsWholeWord(input.query, forbiddenKeywords[k])
                /\ \A j \in 1..(k - 1) :
                      ~OccursAsWholeWord(input.query, forbiddenKeywords[j])
        ELSE ret.error.message = W_OnlySelect

\* UPDATE orders SET x=1 fails both checks and is reported with the prefix
\* rejection.
C26_Witness ==
    /\ Validated
    /\ input.query = Q_UpdateOrders
    /\ OccursAsWholeWord(input.query, S_UPDATE)
    /\ ret.kind = "throw"
    /\ ret.error.message = W_OnlySelect

---------------------------------------------------------------------------
(* Placeholders and parameters of the statements the builders send.        *)

BuilderOps ==
    {"filter_by_column", "search_records", "query_by_date_range"}

Placeholders(sql) ==
    {p \in 1..Len(sql) : sql[p] = "?"}

\* The position of the n-th placeholder of the text.
NthPlaceholder(sql, n) ==
    CHOOSE p \in Placeholders(sql) :
        Cardinality({q \in Placeholders(sql) : q < p}) = n - 1

\* part stands in the text with its last character at position p.
EndsAt(sql, p, part) ==
    /\ p >= Len(part)
    /\ SubSeq(sql, p - Len(part) + 1, p) = part

\* part, which holds one placeholder, stands in the text with that
\* placeholder at position p.
HoldsPlaceholderAt(sql, p, part) ==
    EndsAt(sql, p + Len(part) - (CHOOSE i \in DOMAIN part : part[i] = "?"), part)

\* The entries of a filter that bind a value: the key satisfies the
\* identifier rule and the value is not null.
BindingEntries(filters) ==
    SelectSeq(filters, LAMBDA entry : ValidKey(entry) /\ entry.value # Null)

\* C27: in every statement filter_by_column, search_records and
\* query_by_date_range hand to executeQuery, the number of ? placeholders
\* equals the length of the parameter list and the i-th placeholder stands
\* in the condition of the i-th parameter: of a filter, the i-th entry that
\* has a valid key and a value other than null (IS NULL conditions and
\* dropped entries give neither a placeholder nor a parameter); of a date
\* range, the start date behind >= and the end date behind <=; of a search,
\* %term% once per LIKE condition.
C27_PlaceholdersMatchParameters ==
    input.op \in BuilderOps =>
        \A k \in 1..Len(sent) :
            LET sql == sent[k].sql
                params == sent[k].params
                bound == BindingEntries(input.args.filters)
            IN  /\ Cardinality(Placeholders(sql)) = Len(params)
                /\ input.op = "filter_by_column" =>
                      /\ Len(params) = Len(bound)
                      /\ \A i \in 1..Len(bound) :
                            /\ params[i] = bound[i].value
                            /\ HoldsPlaceholderAt(sql, NthPlaceholder(sql, i),
                                      <<"\"">> \o bound[i].column \o <<"\"">>
                                          \o (IF IsPattern(bound[i].value)
                                              THEN W_Like ELSE W_Equals))
                /\ input.op = "query_by_date_range" =>
                      /\ params = <<input.args.start_date, input.args.end_date>>
                      /\ HoldsPlaceholderAt(sql, NthPlaceholder(sql, 1),
                                <<"\"">> \o input.args.date_column \o W_FromInclusive)
                      /\ HoldsPlaceholderAt(sql, NthPlaceholder(sql, 2),
                                <<"\"">> \o input.args.date_column \o W_ToInclusive)
                /\ input.op = "search_records" /\ k = 2 =>
                      /\ Len(params) >= 1
                      /\ \A i \in 1..Len(params) :
                            /\ params[i] = <<"%">> \o input.args.search_term \o <<"%">>
                            /\ HoldsPlaceholderAt(sql, NthPlaceholder(sql, i), W_LikeNoCase)

\* A filter of an IS NULL entry, a dropped entry, an equality and a LIKE
\* has sent a statement with two placeholders and two parameters.
C27_Witness ==
    /\ input.op = "filter_by_column"
    /\ Len(input.args.filters) = 4
    /\ Len(sent) = 1
    /\ Len(sent[1].params) = 2
    /\ Cardinality(Placeholders(sent[1].sql)) = 2
    /\ includes(sent[1].sql, W_IsNull)
    /\ sent[1].params = <<Number(5), String(V_NorthPattern)>>

---------------------------------------------------------------------------
(* The read-only gate and the names the handlers write into their SQL.     *)

\* The name is one of the ten forbidden keywords, in any letter case.
IsKeywordName(name) ==
    \E k \in 1..Len(forbiddenKeywords) : SameWordIgnoringCase(name, forbiddenKeywords[k])

\* The call has ended with the rejection of the keyword scan.
GateRejection ==
    /\ ret.kind = "return"
    /\ ~ret.value.success
    /\ \E k \in 1..Len(forbiddenKeywords) :
          ret.value.error = W_ForbiddenKeyword \o forbiddenKeywords[k]

\* The names of the caller that the handler writes into its statement.
CallerNames ==
    {input.args.table}
    \cup (IF input.op = "filter_by_column"
          THEN {input.args.filters[i].column : i \in
                   {j \in DOMAIN input.args.filters : ValidKey(input.args.filters[j])}}
          ELSE {})
    \cup (IF input.op = "get_summary_stats" /\ Given(input.args.column)
          THEN {input.args.column}
                   \cup (IF Given(input.args.group_by) THEN {input.args.group_by} ELSE {})
          ELSE {})
    \cup (IF input.op = "query_by_date_range" THEN {input.args.date_column} ELSE {})

\* The names of the text columns a search has read from the schema and
\* found its data statement rejected for.
SearchedNames ==
    IF /\ input.op = "search_records"
       /\ Len(sent) = 1
       /\ backend.outcome = "resolve"
    THEN {backend.rows[i].name : i \in
             {j \in DOMAIN backend.rows : j <= Cap /\ DeclaredAsText(backend.rows[j])}}
    ELSE {}

\* C28 as stated: for every table, column and group-by name that satisfies
\* the identifier rule, the SQL generated by the tool handlers is accepted
\* by validateReadOnlyQuery, also when a name is itself a keyword of the
\* deny list: a builder-generated read never ends with the rejection of the
\* read-only gate.
C28_BuilderSqlNeverRejected ==
    input.op \in HandlerOps /\ ret.kind = "return" => ~GateRejection

\* C28 amended: the SQL generated by the tool handlers is accepted by
\* validateReadOnlyQuery when every name written into it satisfies the
\* identifier rule and none is itself a keyword of the deny list; a name
\* that is such a keyword, in any letter case, is a whole word between its
\* quotes, and the statement that holds it is rejected and never sent.
C28_BuilderSqlRejectedForKeywordNames ==
    input.op \in HandlerOps /\ ret.kind = "return" =>
        /\ \A k \in 1..Len(sent) :
              \A name \in QuotedNames(sent[k].sql) : ~IsKeywordName(name)
        /\ IF \E name \in CallerNames \cup SearchedNames : IsKeywordName(name)
           THEN /\ ~ret.value.success
                /\ ~IsKeywordName(input.args.table) => GateRejection
                /\ IsKeywordName(input.args.table) => sent = <<>>
           ELSE /\ ~GateRejection
                /\ input.args.database = S_holly => Len(sent) >= 1

\* get_recent_records on the table named update has ended with the
\* rejection for the keyword UPDATE, and nothing was sent.
C28_Witness ==
    /\ input.op = "get_recent_records"
    /\ input.args.table = N_update
    /\ SatisfiesIdentifierRule(input.args.table)
    /\ ret.kind = "return"
    /\ ret.value.error = W_ForbiddenKeyword \o S_UPDATE
    /\ sent = <<>>

---------------------------------------------------------------------------
(* processMCPRequest: the dispatch of one JSON-RPC request, split at its   *)
(* await on handleToolCall.                                                *)

S_MissingToolName ==
    <<"M", "i", "s", "s", "i", "n", "g", " ", "t", "o", "o", "l", " ", "n", "a", "m", "e">>
S_MethodNotFound ==
    <<"M", "e", "t", "h", "o", "d", " ", "n", "o", "t", " ", "f", "o", "u", "n", "d", ":", " ">>
S_UnknownError ==
    <<"U", "n", "k", "n", "o", "w", "n", " ", "e", "r", "r", "o", "r">>
S_ProtocolVersion ==
    <<"2", "0", "2", "4", "-", "1", "1", "-", "0", "5">>
S_ServerName ==
    <<"m", "u", "n", "i", "c", "i", "p", "a", "l", "-", "a", "n", "a", "l", "y", "t", "i", "c",
    "s", "-", "m", "c", "p">>
S_ServerVersion ==
    <<"1", ".", "0", ".", "0">>
S_ServerDescription ==
    <<"M", "C", "P", " ", "s", "e", "r", "v", "e", "r", " ", "f", "o", "r", " ", "q", "u", "e",
    "r", "y", "i", "n", "g", " ", "m", "u", "n", "i", "c", "i", "p", "a", "l", " ", "a", "n",
    "a", "l", "y", "t", "i", "c", "s", " ", "d", "a", "t", "a", "b", "a", "s", "e", "s">>
S_CannotDestructure ==
    <<"C", "a", "n", "n", "o", "t", " ", "d", "e", "s", "t", "r", "u", "c", "t", "u", "r", "e",
    " ", "p", "r", "o", "p", "e", "r", "t", "y", " ", "'", "i", "d", "'", " ", "o", "f", " ",
    "'", "r", "e", "q", "u", "e", "s", "t", "'", " ", "a", "s", " ", "i", "t", " ", "i", "s",
    " ", "n", "u", "l", "l", ".">>

\* JSON-RPC error codes of the dispatch.
InvalidParams ==
    -32602
MethodNotFound ==
    -32601
InternalError ==
    -32603

SERVER_INFO ==
    [name |-> S_ServerName, version |-> S_ServerVersion,
     description |-> S_ServerDescription]

\* createTools(): of each tool its name.
createTools ==
    <<"get_instructions", "list_databases", "list_tables", "describe_table",
      "get_data_dictionary", "get_recent_records", "filter_by_column",
      "search_records", "get_summary_stats", "query_by_date_range",
      "execute_query", "get_audit_log">>

\* The properties of a tool result that can hold undefined.
OptionalProperties ==
    {"database", "municipality"}

\* JSON.stringify(value, null, 2): the text of an object leaves out the
\* properties that hold undefined.
JSONStringify(value) ==
    [json |-> [property \in {p \in DOMAIN value :
                                p \in OptionalProperties => value[p] # Undefined}
                  |-> value[property]]]

ResultResponse(id, result) ==
    [jsonrpc |-> "2.0", id |-> id, result |-> result]

ErrorResponse(id, code, message) ==
    [jsonrpc |-> "2.0", id |-> id, error |-> [code |-> code, message |-> message]]

\* The TypeError of destructuring null; its wording is the engine's.
TypeError ==
    Error(S_CannotDestructure)

\* {}: every property a handler reads of it is undefined.
NoArguments ==
    [database |-> Undefined, table |-> Undefined]

\* toolParams?.name
ToolNameOf(request) ==
    IF "params" \in DOMAIN request /\ "name" \in DOMAIN request.params
    THEN request.params.name ELSE ""

\* toolParams?.arguments || {}
ToolArgumentsOf(request) ==
    IF "params" \in DOMAIN request /\ "arguments" \in DOMAIN request.params
    THEN request.params.arguments ELSE NoArguments

\* The handler's call of a tools/call request.
ToolCallOf(request) ==
    [op |-> ToolNameOf(request), args |-> ToolArgumentsOf(request)]

\* What the try block makes of the end of handleToolCall: the result as
\* text inside result, or in the catch the error -32603.
Respond(id, completion) ==
    IF completion.threw
    THEN ErrorResponse(id, InternalError,
                       IF completion.error.isError THEN completion.error.message
                       ELSE S_UnknownError)
    ELSE ResultResponse(id, [content |-> <<[type |-> "text",
                                            text |-> JSONStringify(completion.value)]>>])

\* A step of handleToolCall as processMCPRequest awaits it.
Delivered(id, step) ==
    IF step.awaits THEN step
    ELSE [step EXCEPT !.completion = Normal(Respond(id, step.completion))]

\* processMCPRequest up to its completion or to the first await of the
\* handler. The destructuring of the request stands before the try.
processMCPRequest(request, e) ==
    IF request = Null
    THEN [awaits |-> FALSE, completion |-> Throw(TypeError), ops |-> <<>>]
    ELSE CASE request.method = "initialize" ->
                Returns(ResultResponse(request.id,
                            [protocolVersion |-> S_ProtocolVersion,
                             serverInfo |-> SERVER_INFO,
                             capabilities |-> [tools |-> <<>>]]))
           [] request.method = "tools/list" ->
                Returns(ResultResponse(request.id, [tools |-> createTools]))
           [] request.method = "tools/call" ->
                IF ToolNameOf(request) = ""
                THEN Returns(ErrorResponse(request.id, InvalidParams, S_MissingToolName))
                ELSE Delivered(request.id, StartCall(ToolCallOf(request), e))
           [] request.method = "ping" ->
                Returns(ResultResponse(request.id, <<>>))
           [] OTHER ->
                Returns(ErrorResponse(request.id, MethodNotFound,
                                      S_MethodNotFound \o NameText(request.method)))

\* processMCPRequest from an await of the handler on.
processMCPRequestSettled(request, e, sends, locals, settled) ==
    Delivered(request.id, ResumeCall(ToolCallOf(request), e, sends, locals, settled))

RequestIds ==
    {1, 2}

DictionaryCalls ==
    {[op |-> "get_data_dictionary", args |-> [database |-> d, table |-> t]] :
        d \in ToolDatabaseNames, t \in {Undefined, N_orders}}

\* The parameters of tools/call requests: none, without a name, with an
\* empty name, naming a tool without arguments, and the calls of the tools.
ToolParams ==
    { <<>>, [arguments |-> [database |-> S_holly]],
      [name |-> "", arguments |-> [database |-> S_holly]] }
    \cup {[name |-> n] : n \in {"get_instructions", "list_databases", "list_tables",
                                "get_data_dictionary", "no_such_tool"}}
    \cup {[name |-> "no_such_tool", arguments |-> [database |-> S_holly]]}
    \cup {[name |-> call.op, arguments |-> call.args] :
             call \in ToolCalls \cup DictionaryCalls}

\* The values handleMCPRequest can pass on: the objects, and null.
Requests ==
    {[id |-> i, method |-> m] :
        i \in RequestIds,
        m \in {"initialize", "tools/list", "tools/call", "ping", "resources/list"}}
    \cup {[id |-> i, method |-> "tools/call", params |-> p] :
             i \in RequestIds, p \in ToolParams}
    \cup {Null}

InitMCP ==
    \E request \in Requests : Idle([op |-> "processMCPRequest", request |-> request])

\* processMCPRequest is called and runs to its end or to the handler's
\* first await.
ProcessRequest ==
    /\ input.op = "processMCPRequest"
    /\ ret = Pending
    /\ \E e \in ToolEnvs :
          /\ env' = e
          /\ Stepped(processMCPRequest(input.request, e))
    /\ UNCHANGED <<input, backend, fetched, dictionary>>

\* The backend settles the statement awaited and processMCPRequest runs on,
\* to its end or to the handler's next await.
HandlerSettles ==
    /\ input.op = "processMCPRequest"
    /\ ret.kind = "awaiting"
    /\ \E b \in ToolBackends(sent[Len(sent)].sql) :
          LET statement == sent[Len(sent)]
              settled == D1PrepareBindAll(b, statement.sql, statement.params)
          IN  /\ backend' = b
              /\ fetched' = IF settled.threw THEN fetched
                            ELSE Append(fetched, Len(settled.value.results))
              /\ Stepped(processMCPRequestSettled(
                             input.request, env, Len(sent), LocalsOf(ret), settled))
    /\ UNCHANGED <<input, env, dictionary>>

NextMCP ==
    \/ ProcessRequest
    \/ HandlerSettles

SpecMCP ==
    InitMCP /\ [][NextMCP]_vars

\* processMCPRequest has ended.
Responded ==
    ret.kind \in {"return", "throw"}

\* The text of a tool result inside a response's result.
ResultText(response) ==
    response.result.content[1].text.json

\* The messages of the exceptions a tool handler throws.
HandlerMessages ==
    {S_InvalidTableName, S_InvalidColumnName, S_InvalidGroupBy, S_InvalidDate,
     S_UnknownToolPrefix \o S_no_such_tool}

\* A response as the dispatch is meant to give it for an object request.
ResponseAsMeant(request, response) ==
    LET name == ToolNameOf(request)
        args == ToolArgumentsOf(request)
        protocolError == "error" \in DOMAIN response
    IN  /\ response.jsonrpc = "2.0"
        /\ response.id = request.id
        /\ ("result" \in DOMAIN response) # protocolError
        /\ request.method \in {"initialize", "tools/list", "ping"} => ~protocolError
        /\ request.method = "resources/list" =>
              /\ protocolError
              /\ response.error.code = MethodNotFound
        /\ request.method = "tools/call" /\ name = "" =>
              /\ protocolError
              /\ response.error =
                    [code |-> InvalidParams, message |-> S_MissingToolName]
        /\ request.method = "tools/call" /\ name # "" /\ protocolError =>
              /\ response.error.code = InternalError
              /\ response.error.message \in HandlerMessages
        /\ request.method = "tools/call" /\ name = "no_such_tool" =>
              /\ protocolError
              /\ response.error.message = S_UnknownToolPrefix \o S_no_such_tool
        /\ /\ request.method = "tools/call"
           /\ name \in {"describe_table", "get_recent_records", "filter_by_column",
                        "search_records", "get_summary_stats", "query_by_date_range"}
           /\ ~IsIdentifier(args.table)
           => /\ protocolError
              /\ response.error =
                    [code |-> InternalError, message |-> S_InvalidTableName]
        /\ /\ request.method = "tools/call"
           /\ name = "query_by_date_range"
           /\ IsIdentifier(args.table) /\ IsIdentifier(args.date_column)
           /\ ~IsDateFormat(args.start_date) \/ ~IsDateFormat(args.end_date)
           => /\ protocolError
              /\ response.error = [code |-> InternalError, message |-> S_InvalidDate]
        /\ /\ request.method = "tools/call"
           /\ name = "execute_query"
           => /\ ~protocolError
              /\ \/ args.database # S_holly
                 \/ backend.outcome \notin {"resolve", "unused"}
                 \/ args.query = Q_Update
                 => ~ResultText(response).success

\* C29: processMCPRequest ends every request by returning one response and
\* never by throwing; the response echoes the request's id and carries
\* exactly one of result and error; an exception of a tool handler (invalid
\* identifier, invalid date, unknown tool) becomes the error -32603 with the
\* exception's message, a missing tool name -32602, an unknown method
\* -32601, and a failure QueryResult is delivered inside result.
C29_OneResponseNeverThrows ==
    Responded =>
        /\ ret.kind = "return"
        /\ ResponseAsMeant(input.request, ret.value)

\* For every request that is an object the dispatch answers as meant.
ObjectRequestsAnswered ==
    Responded /\ input.request # Null =>
        /\ ret.kind = "return"
        /\ ResponseAsMeant(input.request, ret.value)

---------------------------------------------------------------------------
(* The tools that write a LIMIT of their own into the statement.           *)

\* A call of such a tool has ended with a success result.
LimitedToolSucceeded ==
    /\ input.op \in LimitedOps
    /\ ret.kind = "return"
    /\ ret.value.success

\* The LIMIT L written into the statement, as the backend reads it.
EmbeddedLimit ==
    CHOOSE n \in StatementLimit(DataStatement.sql) : TRUE

\* The number of rows the backend returned for the statement.
Returned ==
    fetched[Len(fetched)]

Min(a, b) ==
    IF a < b THEN a ELSE b

\* C30: for get_recent_records, filter_by_column, search_records and
\* query_by_date_range, whose statement carries its own LIMIT L, the rows
\* returned are at most min(L, configured cap); truncated is true only when
\* L is greater than the cap and the backend returned more than cap rows;
\* with the default cap of 1000, L is within the cap and truncated is false,
\* also when more rows match than were returned.
C30_OwnLimitBoundsRowsAndTruncation ==
    LimitedToolSucceeded =>
        /\ StatementLimit(DataStatement.sql) # {}
        /\ ret.value.rowCount <= Min(EmbeddedLimit, Cap)
        /\ Len(ret.value.data) = ret.value.rowCount
        /\ ret.value.truncated => EmbeddedLimit > Cap /\ Returned > Cap
        /\ Cap = DefaultCap => EmbeddedLimit <= Cap /\ ~ret.value.truncated

\* A call under the default cap whose LIMIT cut the matching rows short and
\* whose result says truncated=false.
C30_Witness ==
    /\ LimitedToolSucceeded
    /\ env.MAX_RESULT_ROWS = Undefined
    /\ Matching > ret.value.rowCount
    /\ ret.value.rowCount = EmbeddedLimit
    /\ ~ret.value.truncated

====
